---- MODULE Spec2Model ----
(***************************************************************************)
(* A model of the Weenix VFS system-call layer (kernel/fs/vfs_syscall.c),  *)
(* its path resolution (kernel/fs/namev.c) and the S5FS directory          *)
(* operations beneath it.                                                  *)
(*                                                                         *)
(* Return values are records [err, val]: err = "OK" and val the value on   *)
(* success, err the errno name (the C code returns -errno) on failure.     *)
(***************************************************************************)
EXTENDS Integers, Sequences, FiniteSets, TLC

VARIABLES
    p_files,    \* curproc->p_files : descriptor -> file handle (NULL when free)
    files,      \* the file_t objects: f_pos, f_mode, f_vnode, f_refcount
    vn_len,     \* vn_len of the vnodes open files refer to
    vfs,        \* the vnodes: vnodes (mode, link count, directory entries),
                \* vn_refcount and vn_mutex (held or not) of each
    p_cwd,      \* curproc->p_cwd
    s5,         \* the S5FS inodes and the head of the free inode list
    vm,         \* curproc->p_vmmap: the list of VM areas, and the memory objects
    km,         \* vn_mutex of each vnode the threads contend for: its holder
    vn_data,    \* the bytes of the regular file the threads read and write
    thr,        \* the kernel threads: the call each is in and the locks to take
    ldisc,      \* the line discipline of the terminal: its circular buffer,
                \* the indices into it and the queue of sleeping readers
    panicked,   \* the kernel has faulted or hit a failed KASSERT
    last        \* the last call made: its arguments and what it returned

vars == <<p_files, files, vn_len, vfs, p_cwd, s5, vm, km, thr, vn_data, ldisc,
          panicked, last>>
fdvars == <<p_files, files, vn_len>>
vfsvars == <<vfs, p_cwd>>
lkvars == <<km, thr, vn_data>>

-----------------------------------------------------------------------------
(* Bounds *)

\* size of the descriptor table (NFILES; 32 in the kernel, scaled down)
NFILES == 3
\* number of file_t objects that exist
MaxHandles == 2
\* largest file length and largest byte count of one read or write
MaxFileLen == 2
\* most references the handles may hold beyond the descriptors naming them
MaxLeak == 1
\* number of vnodes (inodes) of the file system
MaxVnodes == 3
\* longest path the calls are given, in characters
MaxPathLen == 4
\* NAME_LEN, the size of a directory entry's name (28 in the kernel, scaled down)
NAME_LEN == 3
\* number of inodes of the S5FS disk
MaxInodes == 6
\* s5s_num_blocks: the number of blocks of the S5FS disk
MaxBlocks == 8
\* S5_NDIRECT_BLOCKS and S5_NIDIRECT_BLOCKS: the block pointers of an inode
\* and of an indirect block (scaled down)
S5_NDIRECT_BLOCKS == 1
S5_NIDIRECT_BLOCKS == 1
\* S5_NBLKS_PER_FNODE: the slots of a node of the free block list, the last
\* of them the link to the next node (scaled down)
S5_NBLKS_PER_FNODE == 3
\* number of kernel threads making directory calls at once
MaxThreads == 2
\* number of vnodes whose mutexes the threads contend for
MaxLkVnodes == 3
\* number of pages of the user address space
MaxPages == 4
\* number of vnodes whose memory objects can be mapped
MaxObjs == 1
\* most references and anonymous objects the mapping calls may leave behind
MaxVmLeak == 1
\* number of writes the threads make
MaxWrites == 3
\* most bytes a thread reads or writes in one call
MaxRwLen == 2

-----------------------------------------------------------------------------
(* Return values *)

Ok(v) == [err |-> "OK", val |-> v]
Err(e) == [err |-> e, val |-> 0]
\* the C test `ret != 0`
NonZero(r) == ~(r.err = "OK" /\ r.val = 0)
\* the C test `ret < 0`
Negative(r) == r.err # "OK"

NULL == 0
Fds == 0 .. (NFILES - 1)
FdArgs == -1 .. NFILES
Handles == 1 .. MaxHandles
FdVnodes == {"dir", "reg"}
S_ISDIR_v(v) == v = "dir"

FreeFile == [f_pos |-> 0, f_mode |-> {}, f_vnode |-> "reg", f_refcount |-> 0]

-----------------------------------------------------------------------------
(* File handles and the descriptor table (fs/file.c) *)

\* fref: one more reference to the handle
fref(fs, h) == [fs EXCEPT ![h].f_refcount = @ + 1]

\* fput: one reference less; the last one frees the handle
fput(fs, h) ==
    IF fs[h].f_refcount > 1
    THEN [fs EXCEPT ![h].f_refcount = @ - 1]
    ELSE [fs EXCEPT ![h] = FreeFile]

\* fget: the handle of an open descriptor (the caller gets a reference,
\* taken with fref by the callers below), NULL otherwise
fget(pf, fd) == IF fd \in Fds THEN pf[fd] ELSE NULL

\* the number of descriptors that name handle h
RefsTo(pf, h) == Cardinality({fd \in Fds : pf[fd] = h})

\* the references held by no descriptor
RECURSIVE Leaked(_, _, _)
Leaked(pf, fs, H) ==
    IF H = {} THEN 0
    ELSE LET h == CHOOSE x \in H : TRUE
         IN  fs[h].f_refcount - RefsTo(pf, h) + Leaked(pf, fs, H \ {h})

\* get_empty_fd: the lowest free index, or EMFILE
get_empty_fd(pf) ==
    IF \E i \in Fds : pf[i] = NULL
    THEN Ok(CHOOSE i \in Fds : pf[i] = NULL /\ \A j \in Fds : pf[j] = NULL => i <= j)
    ELSE Err("EMFILE")

-----------------------------------------------------------------------------
(* The vnode read and write operations the syscalls delegate to *)

Min(a, b) == IF a < b THEN a ELSE b
Max(a, b) == IF a > b THEN a ELSE b

\* vn_ops->read: clamps at end of file; may fail
vn_read(vl, v, pos, len, fail) ==
    IF fail THEN Err("ENOMEM")
    ELSE IF pos >= vl[v] THEN Ok(0) ELSE Ok(Min(len, vl[v] - pos))

\* vn_ops->write: EFBIG past the maximum size, otherwise writes what fits
vn_write(vl, v, pos, len, fail) ==
    IF fail THEN Err("ENOMEM")
    ELSE IF pos > MaxFileLen THEN Err("EFBIG")
    ELSE Ok(Min(len, MaxFileLen - pos))

\* the file length after a write that returned ret
vn_write_len(vl, v, pos, ret) ==
    IF ret.err = "OK" THEN [vl EXCEPT ![v] = Max(@, pos + ret.val)] ELSE vl

-----------------------------------------------------------------------------
(* do_read *)

RdRes(fs, ret, h, pos0) == [files |-> fs, ret |-> ret, h |-> h, pos0 |-> pos0]

\* the position update of do_read/do_write once the vnode operation returned
\* ret: `if (ret != 0) return ret; file->f_pos += ret;`
rw_update_pos(fs, h, ret) ==
    IF NonZero(ret) THEN fs
    ELSE [fs EXCEPT ![h].f_pos = @ + ret.val]

do_read_res(pf, fs, vl, fd, len, fail) ==
    LET h == fget(pf, fd) IN
    IF h = NULL THEN RdRes(fs, Err("EBADF"), NULL, 0)
    ELSE LET f1 == fref(fs, h) IN
         IF "FMODE_READ" \in f1[h].f_mode
         THEN IF S_ISDIR_v(f1[h].f_vnode)
              THEN RdRes(fput(f1, h), Err("EISDIR"), h, 0)
              ELSE LET ret == vn_read(vl, f1[h].f_vnode, f1[h].f_pos, len, fail)
                   IN  RdRes(fput(rw_update_pos(f1, h, ret), h), ret, h, f1[h].f_pos)
         ELSE RdRes(fput(f1, h), Err("EBADF"), h, 0)

do_read ==
    /\ ~panicked
    /\ \E fd \in FdArgs, len \in 0 .. MaxFileLen, fail \in BOOLEAN :
          LET r == do_read_res(p_files, files, vn_len, fd, len, fail) IN
          /\ files' = r.files
          /\ last' = [op |-> "do_read", fd |-> fd, arg |-> len, ret |-> r.ret]
    /\ UNCHANGED <<p_files, vn_len, panicked>>
    /\ UNCHANGED <<vfsvars, s5, lkvars, vm, ldisc>>

-----------------------------------------------------------------------------
(* do_write *)

\* `if (file->f_mode & FMODE_APPEND) file->f_pos = file->f_vnode->vn_len;`
write_append_pos(fs, vl, h) ==
    IF "FMODE_APPEND" \in fs[h].f_mode
    THEN [fs EXCEPT ![h].f_pos = vl[fs[h].f_vnode]]
    ELSE fs

WrRes(fs, vl, ret, h, pos0) ==
    [files |-> fs, vn_len |-> vl, ret |-> ret, h |-> h, pos0 |-> pos0]

do_write_res(pf, fs, vl, fd, len, fail) ==
    LET h == fget(pf, fd) IN
    IF h = NULL THEN WrRes(fs, vl, Err("EBADF"), NULL, 0)
    ELSE LET f1 == fref(fs, h) IN
         IF "FMODE_WRITE" \in f1[h].f_mode
         THEN LET f2 == write_append_pos(f1, vl, h)
                  v == f2[h].f_vnode
                  ret == vn_write(vl, v, f2[h].f_pos, len, fail)
              IN  WrRes(fput(rw_update_pos(f2, h, ret), h),
                        vn_write_len(vl, v, f2[h].f_pos, ret), ret, h, f2[h].f_pos)
         ELSE WrRes(fput(f1, h), vl, Err("EBADF"), h, 0)

do_write ==
    /\ ~panicked
    /\ \E fd \in FdArgs, len \in 0 .. MaxFileLen, fail \in BOOLEAN :
          LET r == do_write_res(p_files, files, vn_len, fd, len, fail) IN
          /\ files' = r.files
          /\ vn_len' = r.vn_len
          /\ last' = [op |-> "do_write", fd |-> fd, arg |-> len, ret |-> r.ret]
    /\ UNCHANGED <<p_files, panicked>>
    /\ UNCHANGED <<vfsvars, s5, lkvars, vm, ldisc>>

-----------------------------------------------------------------------------
(* do_close *)

CloseRes(pf, fs, ret) == [p_files |-> pf, files |-> fs, ret |-> ret]

do_close_res(pf, fs, fd) ==
    IF fd < 0 \/ fd >= NFILES THEN CloseRes(pf, fs, Err("EBADF"))
    ELSE IF pf[fd] = NULL THEN CloseRes(pf, fs, Err("EBADF"))
    ELSE CloseRes([pf EXCEPT ![fd] = NULL], fput(fs, pf[fd]), Ok(0))

do_close ==
    /\ ~panicked
    /\ \E fd \in FdArgs :
          LET r == do_close_res(p_files, files, fd) IN
          /\ p_files' = r.p_files
          /\ files' = r.files
          /\ last' = [op |-> "do_close", fd |-> fd, arg |-> 0, ret |-> r.ret]
    /\ UNCHANGED <<vn_len, panicked>>
    /\ UNCHANGED <<vfsvars, s5, lkvars, vm, ldisc>>

-----------------------------------------------------------------------------
(* do_dup *)

\* mutant: the new descriptor is never installed
do_dup_install_lost(pf, new_fd, file) == pf

\* `curproc->p_files[new_fd] = file;`
do_dup_install(pf, new_fd, file) == [pf EXCEPT ![new_fd] = file]

do_dup_res(pf, fs, fd) ==
    IF fd < 0 \/ fd >= NFILES THEN CloseRes(pf, fs, Err("EBADF"))
    ELSE IF pf[fd] = NULL THEN CloseRes(pf, fs, Err("EBADF"))
    ELSE LET file == fget(pf, fd)
             f1 == fref(fs, file)
             ret_fd == get_empty_fd(pf)
         IN  IF NonZero(ret_fd) /\ ret_fd.err # "OK"
             THEN CloseRes(pf, f1, ret_fd)
             ELSE CloseRes(do_dup_install(pf, ret_fd.val, file), f1, Ok(ret_fd.val))

do_dup ==
    /\ ~panicked
    /\ \E fd \in FdArgs :
          LET r == do_dup_res(p_files, files, fd) IN
          /\ Leaked(r.p_files, r.files, Handles) <= MaxLeak
          /\ p_files' = r.p_files
          /\ files' = r.files
          /\ last' = [op |-> "do_dup", fd |-> fd, arg |-> 0, ret |-> r.ret]
    /\ UNCHANGED <<vn_len, panicked>>
    /\ UNCHANGED <<vfsvars, s5, lkvars, vm, ldisc>>

-----------------------------------------------------------------------------
(* do_dup2 *)

\* `curproc->p_files[nfd] = curproc->p_files[ofd];`
do_dup2_alias(pf, ofd, nfd) == [pf EXCEPT ![nfd] = pf[ofd]]

\* mutant: the reference of the new descriptor is not counted
do_dup2_ref_forgotten(fs, h) == fs

\* `fref(curproc->p_files[nfd]);`
do_dup2_ref(fs, h) == fref(fs, h)

do_dup2_res(pf, fs, ofd, nfd) ==
    IF ofd < 0 \/ ofd >= NFILES \/ nfd < 0 \/ nfd >= NFILES
    THEN CloseRes(pf, fs, Err("EBADF"))
    ELSE IF pf[ofd] = NULL THEN CloseRes(pf, fs, Err("EBADF"))
    ELSE IF ofd = nfd THEN CloseRes(pf, fs, Ok(nfd))
    ELSE LET c == IF pf[nfd] # NULL THEN do_close_res(pf, fs, nfd)
                  ELSE CloseRes(pf, fs, Ok(0))
         IN  IF NonZero(c.ret) THEN c
             ELSE LET pf2 == do_dup2_alias(c.p_files, ofd, nfd)
                  IN  CloseRes(pf2, do_dup2_ref(c.files, pf2[nfd]), Ok(nfd))

do_dup2 ==
    /\ ~panicked
    /\ \E ofd \in FdArgs, nfd \in FdArgs :
          LET r == do_dup2_res(p_files, files, ofd, nfd) IN
          /\ p_files' = r.p_files
          /\ files' = r.files
          /\ last' = [op |-> "do_dup2", fd |-> ofd, arg |-> nfd, ret |-> r.ret]
    /\ UNCHANGED <<vn_len, panicked>>
    /\ UNCHANGED <<vfsvars, s5, lkvars, vm, ldisc>>

-----------------------------------------------------------------------------
(* do_lseek *)

Whences == {"SEEK_SET", "SEEK_CUR", "SEEK_END"}

\* the new position; for SEEK_END vn_len is read between vlock and vunlock
lseek_pos(fs, vl, h, offset, whence) ==
    IF whence = "SEEK_SET" THEN offset
    ELSE IF whence = "SEEK_CUR" THEN fs[h].f_pos + offset
    ELSE vl[fs[h].f_vnode] + offset

\* uar: the handle is read (`return file->f_pos`) after fput(&file) released
\* the reference fget took
SeekRes(fs, ret, uar) == [files |-> fs, ret |-> ret, uar |-> uar]

do_lseek_res(pf, fs, vl, fd, offset, whence) ==
    LET h == fget(pf, fd) IN
    IF h = NULL THEN SeekRes(fs, Err("EBADF"), FALSE)
    ELSE LET f1 == fref(fs, h) IN
         IF whence \notin Whences THEN SeekRes(fput(f1, h), Err("EINVAL"), FALSE)
         ELSE LET pos == lseek_pos(f1, vl, h, offset, whence) IN
              IF pos < 0 THEN SeekRes(fput(f1, h), Err("EINVAL"), FALSE)
              ELSE LET f2 == fput([f1 EXCEPT ![h].f_pos = pos], h)
                   IN  SeekRes(f2, Ok(f2[h].f_pos), TRUE)

\* Reading through the released handle is undefined: the read either still
\* finds the file_t (a descriptor keeps it alive) or faults, fput having
\* cleared the caller's pointer.
do_lseek ==
    /\ ~panicked
    /\ \E fd \in FdArgs, offset \in -1 .. MaxFileLen,
          whence \in Whences \cup {"SEEK_BAD"}, fault \in BOOLEAN :
          LET r == do_lseek_res(p_files, files, vn_len, fd, offset, whence) IN
          /\ fault => r.uar
          /\ \A h \in Handles : r.files[h].f_pos <= MaxFileLen + 1
          /\ files' = r.files
          /\ panicked' = fault
          /\ last' = [op |-> "do_lseek", fd |-> fd, arg |-> offset,
                      ret |-> IF fault THEN Err("FAULT") ELSE r.ret,
                      whence |-> whence, uar |-> r.uar]
    /\ UNCHANGED <<p_files, vn_len>>
    /\ UNCHANGED <<vfsvars, s5, lkvars, vm, ldisc>>

-----------------------------------------------------------------------------
(* Vnodes: reference counts and mutexes (fs/vnode.c), and the directory    *)
(* operations of the mounted file system that namev.c and vfs_syscall.c    *)
(* call through vn_ops                                                      *)

\* vfs_root_fs.fs_root
ROOT == 1
Vnodes == 1 .. MaxVnodes
S_ISDIR(mode) == mode = "S_IFDIR"

vref(k, v) == [k EXCEPT !.vn_refcount[v] = @ + 1]

\* vput: drops a reference; through a NULL pointer, or with no reference
\* left to drop, the kernel faults
vput(k, v) ==
    IF v = NULL \/ k.vn_refcount[v] = 0 THEN [k EXCEPT !.bad = TRUE]
    ELSE [k EXCEPT !.vn_refcount[v] = @ - 1]

\* vlock: the mutex is not recursive, locking it twice never returns
vlock(k, v) ==
    IF k.vn_mutex[v] THEN [k EXCEPT !.bad = TRUE]
    ELSE [k EXCEPT !.vn_mutex[v] = TRUE]

vunlock(k, v) ==
    IF k.vn_mutex[v] THEN [k EXCEPT !.vn_mutex[v] = FALSE]
    ELSE [k EXCEPT !.bad = TRUE]

vput_locked(k, v) == vput(vunlock(k, v), v)

\* what a lookup or a creation returns: state, errno, vnode, and for a
\* creation the arguments the vnode operation was called with
NameRes(k, err, res, call) == [k |-> k, err |-> err, res |-> res, call |-> call]

\* a statement's result, computed once, and what the code goes on to do with it
Then(v, Rest(_)) == CHOOSE r \in {Rest(x) : x \in {v}} : TRUE
NoCall == [op |-> "none"]

\* vn_ops->lookup: the entry called name, with a reference added
fs_lookup(k, dir, name) ==
    LET hits == {e \in k.vnodes[dir].ents : e.name = name} IN
    IF hits = {} THEN NameRes(k, "ENOENT", NULL, NoCall)
    ELSE LET e == CHOOSE x \in hits : TRUE
         IN  NameRes(vref(k, e.ino), "OK", e.ino, NoCall)

\* the name as a directory entry holds it: NAME_LEN - 1 characters and a NUL
StoredName(name) == SubSeq(name, 1, Min(Len(name), NAME_LEN - 1))

FreeVnodes(k) == {v \in Vnodes : k.vnodes[v].mode = "FREE"}
fs_alloc(k) == CHOOSE v \in FreeVnodes(k) : \A w \in FreeVnodes(k) : v <= w

\* vn_ops->mknod: a new file of the given mode, entered in dir under name,
\* returned unlocked with one reference; ENOSPC when no inode is free
fs_mknod(k, dir, name, mode, devid) ==
    LET call == [op |-> "mknod", dir |-> dir, name |-> name, mode |-> mode,
                 devid |-> devid, locked |-> k.vn_mutex[dir]]
    IN  IF FreeVnodes(k) = {} THEN NameRes(k, "ENOSPC", NULL, call)
        ELSE LET v == fs_alloc(k)
                 k1 == [k EXCEPT
                          !.vnodes[v] = [mode |-> mode, devid |-> devid,
                                         nlink |-> 1, ents |-> {}],
                          !.vnodes[dir].ents = @ \cup {[name |-> StoredName(name), ino |-> v]}]
             IN  NameRes(vref(k1, v), "OK", v, call)

\* vn_ops->mkdir: a new directory holding "." and "..", entered in dir
fs_mkdir(k, dir, name) ==
    LET call == [op |-> "mkdir", dir |-> dir, name |-> name, mode |-> "S_IFDIR",
                 devid |-> 0, locked |-> k.vn_mutex[dir]]
    IN  IF FreeVnodes(k) = {} THEN NameRes(k, "ENOSPC", NULL, call)
        ELSE LET v == fs_alloc(k)
                 k1 == [k EXCEPT
                          !.vnodes[v] = [mode |-> "S_IFDIR", devid |-> 0, nlink |-> 2,
                                         ents |-> {[name |-> <<".">>, ino |-> v],
                                                   [name |-> <<".", ".">>, ino |-> dir]}],
                          !.vnodes[dir].ents = @ \cup {[name |-> StoredName(name), ino |-> v]},
                          !.vnodes[dir].nlink = @ + 1]
             IN  NameRes(vref(k1, v), "OK", v, call)

\* vn_ops->rmdir: "." and ".." are refused as s5fs_rmdir refuses them; an
\* empty directory loses its entries and its name in dir
fs_rmdir(k, dir, name) ==
    LET call == [op |-> "rmdir", dir |-> dir, name |-> name, mode |-> "S_IFDIR",
                 devid |-> 0, locked |-> k.vn_mutex[dir]]
        hits == {e \in k.vnodes[dir].ents : e.name = name}
    IN  IF name = <<".">> \/ name = <<".", ".">> THEN NameRes(k, "ENOTDIR", NULL, call)
        ELSE IF hits = {} THEN NameRes(k, "ENOENT", NULL, call)
        ELSE LET e == CHOOSE x \in hits : TRUE
                 child == k.vnodes[e.ino]
             IN  IF ~S_ISDIR(child.mode) THEN NameRes(k, "ENOTDIR", NULL, call)
                 ELSE IF Cardinality(child.ents) > 2
                 THEN NameRes(k, "ENOTEMPTY", NULL, call)
                 ELSE NameRes([k EXCEPT !.vnodes[dir].ents = @ \ {e},
                                        !.vnodes[dir].nlink = @ - 1,
                                        !.vnodes[e.ino].ents = {},
                                        !.vnodes[e.ino].nlink = 0],
                              "OK", NULL, call)

-----------------------------------------------------------------------------
(* namev.c *)

\* path[i]; the terminating NUL at and past the end of the string
CharAt(path, i) == IF i >= 1 /\ i <= Len(path) THEN path[i] ELSE "NUL"

\* mutant: a run of '/' is not skipped, only one separator is
SkipOneSlash(path, i) == IF CharAt(path, i) = "/" THEN i + 1 ELSE i

\* `while (**search == '/') (*search)++;`
RECURSIVE SkipSlashes(_, _)
SkipSlashes(path, i) ==
    IF CharAt(path, i) = "/" THEN SkipSlashes(path, i + 1) ELSE i

\* `while (**search && **search != '/') { (*len)++; (*search)++; }`
RECURSIVE TokenEnd(_, _)
TokenEnd(path, i) ==
    IF CharAt(path, i) \notin {"NUL", "/"} THEN TokenEnd(path, i + 1) ELSE i

\* namev_tokenize: search is an index into path, NULL once the end is reached
namev_tokenize(path, search) ==
    IF search = NULL THEN [begin |-> NULL, len |-> 0, search |-> NULL]
    ELSE LET b == SkipSlashes(path, search)
             e == TokenEnd(path, b)
         IN  [begin |-> b, len |-> e - b,
              search |-> IF CharAt(path, e) = "NUL" THEN NULL ELSE e]

\* the len characters of path from index begin
Name(path, begin, len) == SubSeq(path, begin, begin + len - 1)

namev_lookup(k, dir, name) ==
    IF ~S_ISDIR(k.vnodes[dir].mode) THEN NameRes(k, "ENOTDIR", NULL, NoCall)
    ELSE IF Len(name) = 0 THEN NameRes(vref(k, dir), "OK", dir, NoCall)
    ELSE fs_lookup(k, dir, name)

DirRes(k, err, res, name, namelen) ==
    [k |-> k, err |-> err, res |-> res, name |-> name, namelen |-> namelen]

\* the loop of namev_dir: basenode is locked and referenced
RECURSIVE namev_dir_loop(_, _, _, _, _)
namev_dir_loop(k, path, basenode, cur, next) ==
    IF next.len = 0
    THEN DirRes(vunlock(k, basenode), "OK", basenode, cur.begin, cur.len)
    ELSE Then(namev_lookup(k, basenode, Name(path, cur.begin, cur.len)), LAMBDA l :
         IF l.err # "OK"
         THEN DirRes(vput_locked(l.k, basenode), l.err, NULL, NULL, 0)
         ELSE Then(namev_tokenize(path, next.search), LAMBDA nextname :
              IF basenode = l.res
              THEN namev_dir_loop(vput(l.k, l.res), path, basenode, next, nextname)
              ELSE namev_dir_loop(vlock(vput_locked(l.k, basenode), l.res), path,
                                  l.res, next, nextname)))

\* `if (*path == '/') basenode = vfs_root_fs.fs_root; else basenode = base;`
namev_dir_start(base, path) == IF path[1] = "/" THEN ROOT ELSE base

namev_dir_res(k, base, path) ==
    IF path = <<>> THEN DirRes(k, "EINVAL", NULL, NULL, 0)
    ELSE LET basenode == namev_dir_start(base, path) IN
         Then(namev_tokenize(path, 1), LAMBDA curname :
         Then(namev_tokenize(path, curname.search), LAMBDA nextname :
              namev_dir_loop(vref(vlock(k, basenode), basenode), path, basenode,
                             curname, nextname)))

\* The same call statement by statement: the vnodes after each vlock, vref,
\* namev_lookup, vput, vput_locked and vunlock that namev_dir executes
NdStep(k, at, v) == [k |-> k, at |-> at, v |-> v]

\* mutant: the child is locked while the parent is still locked
namev_dir_next_coupled(k, basenode, revnode) ==
    IF basenode = revnode THEN <<NdStep(vput(k, revnode), "vput", revnode)>>
    ELSE <<NdStep(vlock(k, revnode), "vlock", revnode),
           NdStep(vput_locked(vlock(k, revnode), basenode), "vput_locked",
                  basenode)>>

\* `if (basenode == revnode) vput(&revnode);
\*  else { vput_locked(&basenode); vlock(revnode); }`
namev_dir_next(k, basenode, revnode) ==
    IF basenode = revnode THEN <<NdStep(vput(k, revnode), "vput", revnode)>>
    ELSE <<NdStep(vput_locked(k, basenode), "vput_locked", basenode),
           NdStep(vlock(vput_locked(k, basenode), revnode), "vlock", revnode)>>

RECURSIVE namev_dir_loop_steps(_, _, _, _, _)
namev_dir_loop_steps(k, path, basenode, cur, next) ==
    IF next.len = 0
    THEN <<NdStep(vunlock(k, basenode), "vunlock", basenode)>>
    ELSE Then(namev_lookup(k, basenode, Name(path, cur.begin, cur.len)), LAMBDA l :
         <<NdStep(l.k, "namev_lookup", basenode)>> \o
         (IF l.err # "OK"
          THEN <<NdStep(vput_locked(l.k, basenode), "vput_locked", basenode)>>
          ELSE Then(namev_dir_next(l.k, basenode, l.res), LAMBDA n :
               n \o namev_dir_loop_steps(n[Len(n)].k, path, l.res, next,
                                         namev_tokenize(path, next.search)))))

namev_dir_steps(k, base, path) ==
    IF path = <<>> THEN <<>>
    ELSE LET basenode == namev_dir_start(base, path) IN
         Then(namev_tokenize(path, 1), LAMBDA curname :
         <<NdStep(vlock(k, basenode), "vlock", basenode),
           NdStep(vref(vlock(k, basenode), basenode), "vref", basenode)>>
           \o namev_dir_loop_steps(vref(vlock(k, basenode), basenode), path,
                                   basenode, curname,
                                   namev_tokenize(path, curname.search)))

\* `path[strlen(path) - 1] == '/'`. For the empty string this reads the byte
\* before the string; whatever it holds, namev_open returns EINVAL, from
\* this test or from namev_dir.
EndsInSlash(path) == CharAt(path, Len(path)) = "/"

\* mutant: the basename is never found too long
name_too_long_never(namelen) == FALSE

\* `nv_namelen > NAME_LEN`
name_too_long(namelen) == namelen > NAME_LEN

\* mutant: the parent is unlocked before mknod is called
namev_open_create_unlocked(k, dirnode, name, mode, devid) ==
    LET m == fs_mknod(vunlock(k, dirnode), dirnode, name, mode, devid)
    IN  [m EXCEPT !.k = vlock(m.k, dirnode)]

\* `res = dirnode->vn_ops->mknod(dirnode, nv_name, nv_namelen, mode, devid,
\* &filenode);` with dirnode locked by the caller
namev_open_create(k, dirnode, name, mode, devid) ==
    fs_mknod(k, dirnode, name, mode, devid)

\* the rest of namev_open once filenode is found or made: dirnode is locked
namev_open_found(k, path, dirnode, filenode, call) ==
    LET k1 == vunlock(k, dirnode) IN
    IF ~S_ISDIR(k1.vnodes[filenode].mode) /\ EndsInSlash(path)
    THEN NameRes(vput(vput(k1, dirnode), filenode), "ENOTDIR", NULL, call)
    ELSE NameRes(vput(k1, dirnode), "OK", filenode, call)

namev_open_res(k, base, path, oflags, mode, devid) ==
    IF "O_CREAT" \in oflags /\ EndsInSlash(path)
    THEN NameRes(k, "EINVAL", NULL, NoCall)
    ELSE Then(namev_dir_res(k, base, path), LAMBDA d :
         IF d.err # "OK" THEN NameRes(d.k, d.err, NULL, NoCall)
         ELSE IF name_too_long(d.namelen)
         THEN NameRes(vput(d.k, d.res), "ENAMETOOLONG", NULL, NoCall)
         ELSE LET dirnode == d.res
                  nv_name == Name(path, d.name, d.namelen)
              IN  Then(namev_lookup(vlock(d.k, dirnode), dirnode, nv_name), LAMBDA l :
                  IF l.err = "ENOENT" /\ "O_CREAT" \in oflags
                  THEN Then(namev_open_create(l.k, dirnode, nv_name, mode, devid),
                            LAMBDA m :
                            IF m.err # "OK"
                            THEN \* vput(&filenode) with filenode still NULL
                                 NameRes(vput(vput(vunlock(m.k, dirnode), dirnode), m.res),
                                         m.err, NULL, m.call)
                            ELSE namev_open_found(m.k, path, dirnode, m.res, m.call))
                  ELSE IF l.err # "OK"
                  THEN NameRes(vput(vunlock(l.k, dirnode), dirnode), l.err, NULL, NoCall)
                  ELSE namev_open_found(l.k, path, dirnode, l.res, NoCall)))

-----------------------------------------------------------------------------
(* do_mknod and do_mkdir (vfs_syscall.c) *)

do_mknod_res(k, cwd, path, mode, devid) ==
    IF mode \notin {"S_IFCHR", "S_IFBLK", "S_IFREG"}
    THEN NameRes(k, "EINVAL", NULL, NoCall)
    ELSE Then(namev_open_res(k, cwd, path, {"O_CREAT"}, mode, devid), LAMBDA o :
         IF o.err # "OK" THEN o
         ELSE NameRes(vput(o.k, o.res), "OK", NULL, o.call))

\* mutant: the reference on the existing entry is kept
do_mkdir_exists_leak(k, parent_vnode, res_vnode) ==
    NameRes(vput_locked(k, parent_vnode), "EEXIST", NULL, NoCall)

\* `vput_locked(&parent_vnode); vput(&res_vnode); return -EEXIST;`
do_mkdir_exists(k, parent_vnode, res_vnode) ==
    NameRes(vput(vput_locked(k, parent_vnode), res_vnode), "EEXIST", NULL, NoCall)

do_mkdir_res(k, cwd, path) ==
    Then(namev_dir_res(k, cwd, path), LAMBDA d :
    IF d.err # "OK" THEN NameRes(d.k, d.err, NULL, NoCall)
    ELSE LET parent_vnode == d.res IN
         IF ~S_ISDIR(d.k.vnodes[parent_vnode].mode)
         THEN NameRes(vput(d.k, parent_vnode), "ENOTDIR", NULL, NoCall)
         ELSE IF d.namelen >= NAME_LEN
         THEN NameRes(vput(d.k, parent_vnode), "ENAMETOOLONG", NULL, NoCall)
         ELSE LET name == Name(path, d.name, d.namelen) IN
              Then(namev_lookup(vlock(d.k, parent_vnode), parent_vnode, name), LAMBDA l :
              IF l.err = "OK" THEN do_mkdir_exists(l.k, parent_vnode, l.res)
              ELSE IF l.err = "ENOENT"
              THEN Then(fs_mkdir(l.k, parent_vnode, name), LAMBDA m :
                   IF m.err # "OK"
                   THEN NameRes(vput_locked(m.k, parent_vnode), m.err, NULL, m.call)
                   ELSE NameRes(vput_locked(vput(m.k, m.res), parent_vnode),
                                "OK", NULL, m.call))
              ELSE NameRes(vput_locked(l.k, parent_vnode), l.err, NULL, NoCall)))

\* `strcmp(name, s) == 0`: name points into path and ends where path ends
strcmp_eq(path, name, str) == SubSeq(path, name, Len(path)) = str

do_rmdir_res(k, cwd, path) ==
    Then(namev_dir_res(k, cwd, path), LAMBDA d :
    IF d.err # "OK" THEN NameRes(d.k, d.err, NULL, NoCall)
    ELSE LET parent_vnode == d.res IN
         IF strcmp_eq(path, d.name, <<".">>)
         THEN NameRes(vput(d.k, parent_vnode), "EINVAL", NULL, NoCall)
         ELSE IF strcmp_eq(path, d.name, <<".", ".">>)
         THEN NameRes(vput(d.k, parent_vnode), "ENOTEMPTY", NULL, NoCall)
         ELSE IF ~S_ISDIR(d.k.vnodes[parent_vnode].mode)
         THEN NameRes(vput(d.k, parent_vnode), "ENOTDIR", NULL, NoCall)
         ELSE IF d.namelen > NAME_LEN
         THEN NameRes(vput(d.k, parent_vnode), "ENAMETOOLONG", NULL, NoCall)
         ELSE Then(fs_rmdir(vlock(d.k, parent_vnode), parent_vnode,
                            Name(path, d.name, d.namelen)), LAMBDA r :
              NameRes(vput(vunlock(r.k, parent_vnode), parent_vnode), r.err, NULL,
                      r.call)))

-----------------------------------------------------------------------------
(* The calls of the path layer, and the file system they start from *)

Chars == {"/", ".", "a"}
Paths == UNION {[1 .. n -> Chars] : n \in 0 .. MaxPathLen}

\* a component one character longer than NAME_LEN
LongName == [i \in 1 .. (NAME_LEN + 1) |-> "a"]

\* "/a/.././//a/aaa/" and "a/..//.", after the examples in namev.c
Example1 ==
    <<"/", "a", "/", ".", ".", "/", ".", "/", "/", "/", "a", "/", "a", "a", "a", "/">>
Example2 == <<"a", "/", ".", ".", "/", "/", ".">>

\* longer paths of interest: the examples, over-long components
ExtraPaths ==
    { Example1, Example2, LongName, LongName \o <<"/">>, LongName \o <<"/", "a">>,
      <<"a", "/">> \o LongName, <<"a", "a", "/">> \o LongName }

\* the paths given to the calls that create
CreatePaths ==
    { <<>>, <<"/">>, <<".">>, <<"a">>, <<"a", "/">>, <<"a", "a">>, <<"a", "a", "/">>,
      <<"/", "a", "a">>, <<"a", "/", "a", "a">>, <<"a", "a", "/", "a">>,
      <<"a", "a", "a">>, <<".", ".", "/", "a", "a">>, <<"a", "/", ".", ".">> }
    \cup ExtraPaths

FreeVnode == [mode |-> "FREE", devid |-> 0, nlink |-> 0, ents |-> {}]
Dot == <<".">>
DotDot == <<".", ".">>

\* The mounted file system: the root directory holds the directory "a";
\* the root vnode is referenced by the mount, the working directory by the
\* process; no mutex is held between calls.
BootVfs(cwd) ==
    [ vnodes |-> [v \in Vnodes |->
         IF v = ROOT
         THEN [mode |-> "S_IFDIR", devid |-> 0, nlink |-> 3,
               ents |-> {[name |-> Dot, ino |-> ROOT], [name |-> DotDot, ino |-> ROOT],
                         [name |-> <<"a">>, ino |-> ROOT + 1]}]
         ELSE IF v = ROOT + 1
         THEN [mode |-> "S_IFDIR", devid |-> 0, nlink |-> 2,
               ents |-> {[name |-> Dot, ino |-> v], [name |-> DotDot, ino |-> ROOT]}]
         ELSE FreeVnode],
      vn_refcount |-> [v \in Vnodes |->
         (IF v = ROOT THEN 1 ELSE 0) + (IF v = cwd THEN 1 ELSE 0)],
      vn_mutex |-> [v \in Vnodes |-> FALSE],
      bad |-> FALSE ]

\* the record of a call of the path layer
Call(op, path, oflags, mode, devid, err, res, name, namelen, call) ==
    [op |-> op, path |-> path, oflags |-> oflags, mode |-> mode, devid |-> devid,
     err |-> err, res |-> res, name |-> name, namelen |-> namelen, call |-> call]

\* the caller of namev_dir or namev_open still holds the vnode it was given
Outstanding == last.op \in {"namev_dir", "namev_open"} /\ last.err = "OK"
\* a call has returned and its caller has not yet gone on
Called == last.op # "idle"

namev_dir ==
    /\ ~panicked /\ ~Called
    /\ \E path \in Paths \cup ExtraPaths :
          \E r \in {namev_dir_res(vfs, p_cwd, path)} :
          /\ vfs' = r.k
          /\ panicked' = r.k.bad
          /\ last' = Call("namev_dir", path, {}, "", 0, r.err, r.res, r.name,
                          r.namelen, NoCall)
    /\ UNCHANGED p_cwd
    /\ UNCHANGED <<fdvars, s5, lkvars, vm, ldisc>>

namev_open ==
    /\ ~panicked /\ ~Called
    /\ \E oflags \in {{}, {"O_CREAT"}} :
       \E path \in IF oflags = {} THEN Paths \cup ExtraPaths ELSE CreatePaths :
          \E r \in {namev_open_res(vfs, p_cwd, path, oflags, "S_IFREG", 0)} :
          /\ vfs' = r.k
          /\ panicked' = r.k.bad
          /\ last' = Call("namev_open", path, oflags, "S_IFREG", 0, r.err, r.res,
                          NULL, 0, r.call)
    /\ UNCHANGED p_cwd
    /\ UNCHANGED <<fdvars, s5, lkvars, vm, ldisc>>

\* the caller takes the result and, given a vnode, is done with it:
\* `if (ret != 0) return ret; vput(&res_vnode);`
call_done ==
    /\ ~panicked /\ Called
    /\ vfs' = IF Outstanding THEN vput(vfs, last.res) ELSE vfs
    /\ panicked' = vfs'.bad
    /\ last' = Call("idle", <<>>, {}, "", 0, "OK", NULL, NULL, 0, NoCall)
    /\ UNCHANGED p_cwd
    /\ UNCHANGED <<fdvars, s5, lkvars, vm, ldisc>>

MknodArgs ==
    { [mode |-> "S_IFREG", devid |-> 0], [mode |-> "S_IFCHR", devid |-> 1],
      [mode |-> "S_IFDIR", devid |-> 0] }

do_mknod ==
    /\ ~panicked /\ ~Called
    /\ \E path \in CreatePaths, a \in MknodArgs :
          \E r \in {do_mknod_res(vfs, p_cwd, path, a.mode, a.devid)} :
          /\ vfs' = r.k
          /\ panicked' = r.k.bad
          /\ last' = Call("do_mknod", path, {"O_CREAT"}, a.mode, a.devid, r.err,
                          NULL, NULL, 0, r.call)
    /\ UNCHANGED p_cwd
    /\ UNCHANGED <<fdvars, s5, lkvars, vm, ldisc>>

do_mkdir ==
    /\ ~panicked /\ ~Called
    /\ \E path \in CreatePaths :
          \E r \in {do_mkdir_res(vfs, p_cwd, path)} :
          /\ vfs' = r.k
          /\ panicked' = r.k.bad
          /\ last' = Call("do_mkdir", path, {}, "S_IFDIR", 0, r.err, NULL, NULL, 0,
                          r.call)
    /\ UNCHANGED p_cwd
    /\ UNCHANGED <<fdvars, s5, lkvars, vm, ldisc>>

do_rmdir ==
    /\ ~panicked /\ ~Called
    /\ \E path \in Paths \cup ExtraPaths :
          \E r \in {do_rmdir_res(vfs, p_cwd, path)} :
             /\ vfs' = r.k
             /\ panicked' = r.k.bad
             /\ last' = Call("do_rmdir", path, {}, "", 0, r.err, NULL, NULL, 0, r.call)
    /\ UNCHANGED p_cwd
    /\ UNCHANGED <<fdvars, s5, lkvars, vm, ldisc>>

-----------------------------------------------------------------------------
(* The S5FS disk *)

Inos == 0 .. (MaxInodes - 1)
\* `(uint32_t)-1`: the end of the free inode list
NoInode == -1
\* s5s_root_inode
RootIno == 0

\* inodes the disk image comes with: the directories d and e, the file f
InoD == 1
InoF == 2
InoE == 3
FirstFreeIno == 4
\* the device id of the one device
DevId == 1

Blocks == 0 .. (MaxBlocks - 1)
\* `(uint32_t)-1` in the last slot: the free block list ends here
NoBlock == -1
Zeros(n) == [i \in 1 .. n |-> 0]
\* block pointers: the first one b, the others 0 (a sparse block)
OneBlock(n, b) == [i \in 1 .. n |-> IF i = 1 THEN b ELSE 0]
\* the blocks the disk image has in use: f holds block 1 and, through the
\* indirect block 2, block 3; the directories hold blocks 4, 5 and 6
FirstFreeBlock == 7

S5Dir(entries, linkcount, block) ==
    [s5_type |-> "S5_TYPE_DIR", s5_un |-> Cardinality(entries), ents |-> entries,
     s5_direct_blocks |-> OneBlock(S5_NDIRECT_BLOCKS, block), s5_indirect_block |-> 0,
     s5_linkcount |-> linkcount]

\* the file f: two blocks long, two links
BootFile ==
    [s5_type |-> "S5_TYPE_DATA", s5_linkcount |-> 2, s5_un |-> 2, ents |-> {},
     s5_direct_blocks |-> OneBlock(S5_NDIRECT_BLOCKS, 1), s5_indirect_block |-> 2]

\* the free blocks, all of them in the array of the super block
BootNfree == Min(MaxBlocks - FirstFreeBlock, S5_NBLKS_PER_FNODE - 1)

\* The disk image: the root directory holds the directory d (which holds the
\* file f), the file f and the empty directory e; every other inode is on the
\* free list. s5_un is the union of s5_next_free (of a free inode) and
\* s5_size (of an inode in use, here in directory entries)
BootS5 ==
    [ inodes |-> [i \in Inos |->
         IF i = RootIno
         THEN S5Dir({[name |-> Dot, ino |-> i], [name |-> DotDot, ino |-> i],
                     [name |-> <<"d">>, ino |-> InoD], [name |-> <<"f">>, ino |-> InoF],
                     [name |-> <<"e">>, ino |-> InoE]}, 4, 4)
         ELSE IF i = InoD
         THEN S5Dir({[name |-> Dot, ino |-> i], [name |-> DotDot, ino |-> RootIno],
                     [name |-> <<"f">>, ino |-> InoF]}, 2, 5)
         ELSE IF i = InoE
         THEN S5Dir({[name |-> Dot, ino |-> i], [name |-> DotDot, ino |-> RootIno]}, 2, 6)
         ELSE IF i = InoF
         THEN BootFile
         ELSE [s5_type |-> "S5_TYPE_FREE", s5_linkcount |-> 0,
               s5_un |-> IF i + 1 \in Inos THEN i + 1 ELSE NoInode,
               ents |-> {}, s5_direct_blocks |-> Zeros(S5_NDIRECT_BLOCKS),
               s5_indirect_block |-> 0]],
      s5s_free_inode |-> IF FirstFreeIno \in Inos THEN FirstFreeIno ELSE NoInode,
      s5s_free_blocks |-> [i \in 1 .. S5_NBLKS_PER_FNODE |->
                             IF i = S5_NBLKS_PER_FNODE THEN NoBlock
                             ELSE IF i <= BootNfree THEN FirstFreeBlock + i - 1 ELSE 0],
      s5s_nfree |-> BootNfree,
      blk |-> [b \in Blocks |-> IF b = 2 THEN OneBlock(S5_NIDIRECT_BLOCKS, 3) ELSE <<>>],
      pf_dirty |-> [b \in Blocks |-> FALSE],
      node |-> [live |-> TRUE, inode |-> BootFile, dirtied_inode |-> FALSE] ]

IdleS5 == s5 = BootS5

\* the vnodes whose mutexes the threads take: 1 is the root directory, 2 a
\* directory in it, the others regular files of the root
LkVnodes == 1 .. MaxLkVnodes
Threads == 1 .. MaxThreads
NoThread == 0
LkIsDir(v) == v <= 2
IdleThread == [pc |-> "idle", op |-> "none", todo |-> <<>>, held |-> {}]

\* no thread is in a call, no vnode mutex is held
IdleLk ==
    /\ km = [v \in LkVnodes |-> NoThread]
    /\ thr = [t \in Threads |-> IdleThread]
    /\ vn_data = <<>>

\* PAGE_SIZE (4096 in the kernel, scaled down) and the user address space
\* [USER_MEM_LOW, USER_MEM_HIGH), in bytes and in pages
PAGE_SIZE == 2
USER_MEM_LOW == PAGE_SIZE
USER_MEM_HIGH == USER_MEM_LOW + MaxPages * PAGE_SIZE
ADDR_TO_PN(addr) == addr \div PAGE_SIZE
LowPn == ADDR_TO_PN(USER_MEM_LOW)
HighPn == ADDR_TO_PN(USER_MEM_HIGH)

\* the memory object of a vnode (file->vn_mobj), held by the vnode itself
FileObj == [mo_type |-> "MOBJ_FS", mo_refcount |-> 1, shadowed |-> NULL]

\* LDISC_BUFFER_SIZE is 2^LdiscBits
LdiscBits == 2

LDISC_BUFFER_SIZE == 2 ^ LdiscBits

NUL == "NUL"

\* what is known of the keys pressed since ldisc_init: `clean` while they are
\* plain characters, fewer than LDISC_BUFFER_SIZE, and then at most a newline,
\* with no other call on the buffer in between; `chars` the plain characters,
\* `nl` that the newline came, `blocked` that a reader slept when it came
NoLine == [clean |-> FALSE, chars |-> <<>>, nl |-> FALSE, blocked |-> FALSE]

\* the line discipline after ldisc_init
ldisc_init ==
    [ldisc_cooked |-> 0, ldisc_tail |-> 0, ldisc_head |-> 0, ldisc_full |-> 0,
     ldisc_read_queue |-> <<>>,
     ldisc_buffer |-> [i \in 0 .. (LDISC_BUFFER_SIZE - 1) |-> NUL],
     nkeys |-> 0, line |-> [NoLine EXCEPT !.clean = TRUE]]

IdleLdisc == ldisc = ldisc_init

\* an address space without areas
IdleVm == vm = [areas |-> <<>>, mo |-> [o \in 1 .. MaxObjs |-> FileObj]]

\* no file is open
IdleFd ==
    /\ p_files = [fd \in Fds |-> NULL]
    /\ files = [h \in Handles |-> FreeFile]
    /\ vn_len = [v \in FdVnodes |-> 0]

\* no path call is made
IdleVfs == vfs = BootVfs(ROOT) /\ p_cwd = ROOT

InitVfs ==
    /\ IdleFd
    /\ IdleS5
    /\ IdleLk /\ IdleVm /\ IdleLdisc
    /\ p_cwd \in {ROOT, ROOT + 1}
    /\ vfs = BootVfs(p_cwd)
    /\ panicked = FALSE
    /\ last = Call("idle", <<>>, {}, "", 0, "OK", NULL, NULL, 0, NoCall)

-----------------------------------------------------------------------------
(* do_rename and do_chdir (vfs_syscall.c) *)

\* vn_ops->rename, called with olddir and newdir locked: ENOENT when oldname
\* is missing, EISDIR when newname is a directory, nothing to do when both
\* name one inode; else newname names the old inode (an inode it named
\* before loses a link) and oldname is removed
fs_rename(k, olddir, oldname, newdir, newname) ==
    LET call == [op |-> "rename", dir |-> olddir, name |-> oldname, mode |-> "",
                 devid |-> 0, locked |-> k.vn_mutex[olddir] /\ k.vn_mutex[newdir]]
        old == {e \in k.vnodes[olddir].ents : e.name = oldname}
        new == {e \in k.vnodes[newdir].ents : e.name = StoredName(newname)}
    IN  IF old = {} THEN NameRes(k, "ENOENT", NULL, call)
        ELSE IF new # {} /\ S_ISDIR(k.vnodes[(CHOOSE e \in new : TRUE).ino].mode)
        THEN NameRes(k, "EISDIR", NULL, call)
        ELSE IF new # {} /\ (CHOOSE e \in new : TRUE).ino = (CHOOSE e \in old : TRUE).ino
        THEN NameRes(k, "OK", NULL, call)
        ELSE LET o == CHOOSE e \in old : TRUE
                 k1 == IF new = {} THEN k
                       ELSE [k EXCEPT !.vnodes[(CHOOSE e \in new : TRUE).ino].nlink = @ - 1,
                                      !.vnodes[newdir].ents = @ \ new]
                 k2 == [k1 EXCEPT !.vnodes[newdir].ents =
                                      @ \cup {[name |-> StoredName(newname), ino |-> o.ino]}]
             IN  NameRes([k2 EXCEPT !.vnodes[olddir].ents = @ \ {o}], "OK", NULL, call)

\* vlock_in_order(a, b) and vunlock_in_order(a, b) of one thread: both
\* mutexes, one vnode once
vlock_both(k, a, b) == IF a = b THEN vlock(k, a) ELSE vlock(vlock(k, a), b)
vunlock_both(k, a, b) == IF a = b THEN vunlock(k, a) ELSE vunlock(vunlock(k, a), b)

do_rename_res(k, cwd, oldpath, newpath) ==
    Then(namev_dir_res(k, cwd, oldpath), LAMBDA o :
    IF o.err # "OK" THEN NameRes(o.k, o.err, NULL, NoCall)
    ELSE Then(namev_dir_res(o.k, cwd, newpath), LAMBDA n :
         IF n.err # "OK" THEN NameRes(vput(n.k, o.res), n.err, NULL, NoCall)
         ELSE IF ~S_ISDIR(n.k.vnodes[o.res].mode) \/ ~S_ISDIR(n.k.vnodes[n.res].mode)
         THEN NameRes(vput(vput(n.k, o.res), n.res), "ENOTDIR", NULL, NoCall)
         ELSE IF o.namelen > NAME_LEN \/ n.namelen > NAME_LEN
         THEN NameRes(vput(vput(n.k, o.res), n.res), "ENAMETOOLONG", NULL, NoCall)
         ELSE Then(fs_rename(vlock_both(n.k, o.res, n.res),
                             o.res, Name(oldpath, o.name, o.namelen),
                             n.res, Name(newpath, n.name, n.namelen)), LAMBDA r :
              IF r.err # "OK"
              THEN \* `if (ret != 0) { return ret; }`
                   r
              ELSE NameRes(vput(vput(vunlock_both(r.k, o.res, n.res), o.res), n.res),
                           "OK", NULL, r.call))))

\* namev_resolve: namev_open without O_CREAT
namev_resolve(k, base, path) == namev_open_res(k, base, path, {}, "", 0)

\* mutant: the reference on the previous cwd is kept
do_chdir_swap_leak(k, cwd, res_vnode) == [k |-> k, cwd |-> res_vnode]

\* `old_vnode = curproc->p_cwd; curproc->p_cwd = res_vnode; vput(&old_vnode);`
do_chdir_swap(k, cwd, res_vnode) == [k |-> vput(k, cwd), cwd |-> res_vnode]

\* do_chdir: the vnodes, the return value and p_cwd afterwards
do_chdir_res(k, cwd, path) ==
    Then(namev_resolve(k, cwd, path), LAMBDA r :
    IF r.err # "OK" THEN [k |-> r.k, err |-> r.err, cwd |-> cwd]
    ELSE IF ~S_ISDIR(r.k.vnodes[r.res].mode)
    THEN [k |-> vput(r.k, r.res), err |-> "ENOTDIR", cwd |-> cwd]
    ELSE Then(do_chdir_swap(r.k, cwd, r.res), LAMBDA w :
         [k |-> w.k, err |-> "OK", cwd |-> w.cwd]))

\* the paths given to do_rename
RenamePaths ==
    { <<"a">>, <<"a", "a">>, <<"a", "/", "a">>, <<"a", "/", "a", "a">>,
      <<"a", "a", "/", "a">>, LongName }

do_rename ==
    /\ ~panicked /\ ~Called
    /\ \E oldpath \in RenamePaths, newpath \in RenamePaths :
          \E r \in {do_rename_res(vfs, p_cwd, oldpath, newpath)} :
             /\ vfs' = r.k
             /\ panicked' = r.k.bad
             /\ last' = Call("do_rename", oldpath, {}, "", 0, r.err, NULL, NULL, 0,
                             r.call)
    /\ UNCHANGED p_cwd
    /\ UNCHANGED <<fdvars, s5, lkvars, vm, ldisc>>

do_chdir ==
    /\ ~panicked /\ ~Called
    /\ \E path \in Paths \cup ExtraPaths :
          \E r \in {do_chdir_res(vfs, p_cwd, path)} :
             /\ vfs' = r.k
             /\ p_cwd' = r.cwd
             /\ panicked' = r.k.bad
             /\ last' = Call("do_chdir", path, {}, "", 0, r.err, NULL, NULL, 0, NoCall)
    /\ UNCHANGED <<fdvars, s5, lkvars, vm, ldisc>>

NextVfs ==
    \/ namev_dir \/ namev_open \/ do_mknod \/ do_mkdir \/ call_done
    \/ do_chdir

\* Path resolution and creation over one mounted file system
SpecVfs == InitVfs /\ [][NextVfs]_vars

NextDir == do_mknod \/ do_rename \/ do_rmdir \/ call_done

\* Entries made, renamed and removed
SpecDir == InitVfs /\ [][NextDir]_vars

-----------------------------------------------------------------------------
(* S5FS: the inode free list (fs/s5fs/s5fs_subr.c) and mkdir (fs/s5fs/s5fs.c) *)

S5_TYPES == {"S5_TYPE_DATA", "S5_TYPE_DIR", "S5_TYPE_CHR", "S5_TYPE_BLK"}
DirNames == {<<"d">>, <<"n">>}
\* s5fs_mkdir hands the mode S_IFDIR to s5_alloc_inode as the inode type. The
\* two families of constants are defined in headers: the call passes the
\* KASSERT of s5_alloc_inode only in a build where S_IFDIR has the value of an
\* S5 type
S_IFDIR_type == {"S_IFDIR", "S5_TYPE_DIR"}

\* state, failed KASSERT or not, return value
S5Res(s, panic, ret) == [s5 |-> s, panic |-> panic, ret |-> ret]

\* mutant: the head of the free list stays on the allocated inode
s5_alloc_inode_devid_kept(s, type, devid) ==
    IF type \notin S5_TYPES THEN S5Res(s, TRUE, Err("KASSERT"))
    ELSE IF s.s5s_free_inode = NoInode THEN S5Res(s, FALSE, Err("ENOSPC"))
    ELSE S5Res([s EXCEPT !.inodes[s.s5s_free_inode].s5_type = type],
               FALSE, Ok(s.s5s_free_inode))

s5_alloc_inode_devid(s, type, devid) ==
    IF type \notin S5_TYPES THEN S5Res(s, TRUE, Err("KASSERT"))
    ELSE LET new_ino == s.s5s_free_inode IN
         IF new_ino = NoInode THEN S5Res(s, FALSE, Err("ENOSPC"))
         ELSE LET inode == s.inodes[new_ino] IN
              IF inode.s5_un = new_ino
              THEN S5Res([s EXCEPT !.s5s_free_inode = inode.s5_un], TRUE, Err("KASSERT"))
              ELSE S5Res([s EXCEPT !.s5s_free_inode = inode.s5_un,
                                   !.inodes[new_ino] =
                                       [inode EXCEPT !.s5_un = 0, !.s5_type = type,
                                                     !.s5_linkcount = 0,
                                                     !.s5_direct_blocks =
                                                         Zeros(S5_NDIRECT_BLOCKS),
                                                     !.s5_indirect_block =
                                                         IF type \in {"S5_TYPE_CHR",
                                                                      "S5_TYPE_BLK"}
                                                         THEN devid ELSE 0]],
                         FALSE, Ok(new_ino))

\* s5_alloc_inode as s5fs_mknod and s5fs_mkdir call it, with devid 0
s5_alloc_inode_res(s, type) == s5_alloc_inode_devid(s, type, 0)

\* s5_free_block: blockno goes into the next slot of the super block's
\* array; when only the last slot is left the array is copied into the
\* block, which becomes the head of the list
\* mutant: the array is not copied into the block before it is restarted
s5_free_block_unflushed(s, blockno) ==
    IF blockno = 0 \/ ~(s.s5s_nfree < S5_NBLKS_PER_FNODE)
    THEN S5Res(s, TRUE, Err("KASSERT"))
    ELSE IF s.s5s_nfree = S5_NBLKS_PER_FNODE - 1
    THEN S5Res([s EXCEPT !.pf_dirty[blockno] = TRUE,
                         !.s5s_nfree = 0,
                         !.s5s_free_blocks[S5_NBLKS_PER_FNODE] = blockno],
               FALSE, Ok(0))
    ELSE S5Res([s EXCEPT !.s5s_free_blocks[s.s5s_nfree + 1] = blockno,
                         !.s5s_nfree = @ + 1,
                         !.pf_dirty[blockno] = FALSE],
               FALSE, Ok(0))

s5_free_block(s, blockno) ==
    IF blockno = 0 \/ ~(s.s5s_nfree < S5_NBLKS_PER_FNODE)
    THEN S5Res(s, TRUE, Err("KASSERT"))
    ELSE IF s.s5s_nfree = S5_NBLKS_PER_FNODE - 1
    THEN \* s5_get_disk_block(..., 1, &pf) has marked the frame dirty
         S5Res([s EXCEPT !.blk[blockno] = s.s5s_free_blocks,
                         !.pf_dirty[blockno] = TRUE,
                         !.s5s_nfree = 0,
                         !.s5s_free_blocks[S5_NBLKS_PER_FNODE] = blockno],
               FALSE, Ok(0))
    ELSE S5Res([s EXCEPT !.s5s_free_blocks[s.s5s_nfree + 1] = blockno,
                         !.s5s_nfree = @ + 1,
                         !.pf_dirty[blockno] = FALSE],
               FALSE, Ok(0))

\* `for (i ...) if (blocks[i]) s5_free_block(s5fs, blocks[i]);` from index i
RECURSIVE s5_free_each(_, _, _)
s5_free_each(r, blocks, i) ==
    IF r.panic \/ i > Len(blocks) THEN r
    ELSE IF blocks[i] = 0 THEN s5_free_each(r, blocks, i + 1)
    ELSE Then(s5_free_block(r.s5, blocks[i]), LAMBDA f : s5_free_each(f, blocks, i + 1))

\* the direct blocks, the entries of the indirect block and the indirect
\* block itself are freed, in this order
s5_free_all(s, direct, indirect) ==
    Then(s5_free_each(S5Res(s, FALSE, Ok(0)), direct, 1), LAMBDA d :
    IF d.panic \/ indirect = 0 THEN d
    ELSE Then(s5_free_each(d, d.s5.blk[indirect], 1), LAMBDA e :
         IF e.panic THEN e ELSE s5_free_block(e.s5, indirect)))

s5_free_inode_res(s, ino) ==
    LET inode == s.inodes[ino]
        data == inode.s5_type \in {"S5_TYPE_DATA", "S5_TYPE_DIR"}
    IN  IF inode.s5_type \notin S5_TYPES THEN S5Res(s, TRUE, Err("KASSERT"))
        ELSE s5_free_all([s EXCEPT !.s5s_free_inode = ino,
                                   !.inodes[ino] = [inode EXCEPT !.s5_type = "S5_TYPE_FREE",
                                                                 !.s5_un = s.s5s_free_inode]],
                         IF data THEN inode.s5_direct_blocks ELSE Zeros(S5_NDIRECT_BLOCKS),
                         IF data THEN inode.s5_indirect_block ELSE 0)

\* s5_remove_blocks on the cached inode of the file f
s5_remove_blocks(s) ==
    Then(s5_free_all(s, s.node.inode.s5_direct_blocks, s.node.inode.s5_indirect_block),
         LAMBDA r :
         IF r.panic THEN r
         ELSE S5Res([r.s5 EXCEPT !.node.inode.s5_direct_blocks = Zeros(S5_NDIRECT_BLOCKS),
                                 !.node.inode.s5_indirect_block = 0],
                    FALSE, Ok(0)))

\* s5fs_truncate_file of the vnode of f
s5fs_truncate_file_res(s) ==
    s5_remove_blocks([s EXCEPT !.node.inode.s5_un = 0, !.node.dirtied_inode = TRUE])

\* mutant: the entry is written and the link count of the child left alone
s5_link_uncounted(s, dir, name, child) ==
    S5Res([s EXCEPT !.inodes[dir].ents = @ \cup {[name |-> name, ino |-> child]}],
          FALSE, Ok(0))

\* s5_link is not implemented: it writes no entry and returns -1
s5_link(s, dir, name, child) == S5Res(s, FALSE, Err("-1"))

\* s5_remove_dirent is not implemented: it does nothing
s5_remove_dirent(s, dir, name, child) == s

\* mobj_put -> vnode_destructor -> s5fs_delete_vnode, when vput_locked drops the
\* reference vget_locked took on a vnode nothing else refers to
s5fs_delete_vnode_res(s, ino) ==
    LET cached == ino = InoF /\ s.node.live
        inode == IF cached THEN s.node.inode ELSE s.inodes[ino]
        gone == IF cached THEN [s EXCEPT !.node.live = FALSE] ELSE s
    IN  IF inode.s5_linkcount = 0 THEN s5_free_inode_res(gone, ino)
        ELSE IF cached /\ s.node.dirtied_inode
        THEN \* `memcpy(&pf->pf_addr + S5_INODE_OFFSET(...), &s5_node->inode, ...)`
             \* copies to the address of the pframe's field, not into the
             \* page: the inode on disk stays as it was
             S5Res(gone, FALSE, Ok(0))
        ELSE S5Res(gone, FALSE, Ok(0))

\* the undo of s5fs_mkdir: `vput_locked(&child_vnode); s5_free_inode(...);`
s5fs_mkdir_undo(s, child, status) ==
    LET p == s5fs_delete_vnode_res(s, child)
        f == s5_free_inode_res(p.s5, child)
    IN  S5Res(f.s5, p.panic \/ f.panic, status)

\* `mode` is what the constant S_IFDIR is to s5_alloc_inode
s5fs_mkdir_res(s, dir, name, mode) ==
    LET a == s5_alloc_inode_res(s, mode) IN
    IF a.panic \/ Negative(a.ret) THEN a
    ELSE LET child == a.ret.val
             l1 == s5_link(a.s5, dir, name, child)
         IN  IF NonZero(l1.ret) THEN s5fs_mkdir_undo(l1.s5, child, l1.ret)
             ELSE LET l2 == s5_link(l1.s5, child, Dot, child) IN
                  IF NonZero(l2.ret)
                  THEN s5fs_mkdir_undo(s5_remove_dirent(l2.s5, dir, name, child),
                                       child, l2.ret)
                  ELSE LET l3 == s5_link(l2.s5, child, DotDot, dir) IN
                       IF NonZero(l3.ret)
                       THEN s5fs_mkdir_undo(
                                s5_remove_dirent(
                                    s5_remove_dirent(l3.s5, dir, name, child),
                                    child, Dot, child),
                                child, l3.ret)
                       ELSE S5Res(l3.s5, FALSE, Ok(child))

\* s5_find_dirent is not implemented: it reads no entry and returns -1
s5_find_dirent(s, dir, name) == Err("-1")

\* vget (fs/vnode.c): the vnode of an inode, with one reference more
vget_refs == 1

\* s5fs_lookup: the error of s5_find_dirent, or the vnode from vget, which is
\* referenced once more with vref when it is dir itself. refs is the number
\* of references the call added to the vnode it returns.
s5fs_lookup_res(s, dir, name) ==
    Then(s5_find_dirent(s, dir, name), LAMBDA inode_num :
    IF Negative(inode_num) THEN [ret |-> inode_num, res |-> NULL, refs |-> 0]
    ELSE [ret |-> Ok(0), res |-> inode_num.val,
          refs |-> vget_refs + (IF inode_num.val = dir THEN 1 ELSE 0)])

\* the names given to the directory operations of S5FS
S5Names == {Dot, DotDot, <<"d">>, <<"e">>, <<"f">>, <<"n">>}

\* s5fs_rmdir. `dirent` is set to NULL and never assigned: past a successful
\* s5_find_dirent the read of dirent->s5d_inode is a fault
s5fs_rmdir_res(s, parent, name) ==
    IF name = Dot \/ name = DotDot THEN S5Res(s, FALSE, Err("ENOTDIR"))
    ELSE Then(s5_find_dirent(s, parent, name), LAMBDA err :
         IF Negative(err) THEN S5Res(s, FALSE, err)
         ELSE S5Res(s, TRUE, Err("fault")))

\* vget_locked(fs, ino) of s5fs_rename. An inode number outside the inode
\* table (the (ino_t) cast of a negative s5_find_dirent result) makes the
\* read of the inode a fault, or yields a vnode of whatever the disk holds
\* there: `wild` chooses.
s5_vget_locked(ino, wild) ==
    IF ino.err = "OK" /\ ino.val \in Inos THEN "vnode"
    ELSE IF wild THEN "fault" ELSE "garbage"

\* s5fs_rename, for a directory newdir and a newname shorter than NAME_LEN
s5fs_rename_res(s, olddir, oldname, newdir, newname, wild) ==
    IF s.inodes[newdir].s5_type # "S5_TYPE_DIR" THEN S5Res(s, FALSE, Err("ENOTDIR"))
    ELSE IF Len(newname) >= NAME_LEN THEN S5Res(s, FALSE, Err("ENAMETOOLONG"))
    ELSE Then(s5_find_dirent(s, olddir, oldname), LAMBDA old_node_num :
         IF old_node_num = Err("ENOENT") THEN S5Res(s, FALSE, Err("ENOENT"))
         ELSE IF s5_vget_locked(old_node_num, wild) = "fault"
              THEN S5Res(s, TRUE, Err("fault"))
         ELSE Then(s5_find_dirent(s, newdir, newname), LAMBDA new_node_num :
              IF new_node_num = Err("ENOENT")
              THEN \* the branch written for an existing newname
                   IF new_node_num = old_node_num THEN S5Res(s, FALSE, Ok(0))
                   ELSE IF s5_vget_locked(new_node_num, wild) = "fault"
                        THEN S5Res(s, TRUE, Err("fault"))
                   ELSE Then(s5_link(s5_remove_dirent(s, newdir, newname, NoInode),
                                     newdir, newname, NoInode), LAMBDA status :
                        IF status.ret # Ok(0) THEN status
                        ELSE S5Res(s5_remove_dirent(status.s5, olddir, oldname, NoInode),
                                   FALSE, Ok(0)))
              ELSE Then(s5_link(s, newdir, newname, NoInode), LAMBDA status :
                   IF status.ret # Ok(0) THEN status
                   ELSE S5Res(s5_remove_dirent(status.s5, olddir, oldname, NoInode),
                              FALSE, Ok(0)))))

\* s5_read_file and s5_write_file are not implemented: they return -1 and
\* move nothing (buf is what the caller's buffer holds afterwards)
s5_read_file(s, ino, pos, buf, len) == [ret |-> Err("-1"), buf |-> buf]
s5_write_file(s, ino, pos, buf, len) == S5Res(s, FALSE, Err("-1"))

\* s5fs_mknod. `mode` is what the mode constant is to s5_alloc_inode, which
\* is handed mode and not the S5 type chosen from it
s5fs_mknod_res(s, dir, name, mode) ==
    IF mode \notin {"S_IFCHR", "S_IFBLK", "S_IFREG",
                    "S5_TYPE_CHR", "S5_TYPE_BLK", "S5_TYPE_DATA"}
    THEN S5Res(s, FALSE, Err("ENOTSUP"))
    ELSE Then(s5_alloc_inode_res(s, mode), LAMBDA alloc :
         IF alloc.panic \/ Negative(alloc.ret) THEN alloc
         ELSE Then(s5_link(alloc.s5, dir, name, alloc.ret.val), LAMBDA link :
              IF Negative(link.ret)
              THEN \* vput(&vnode) drops the only reference
                   Then(s5fs_delete_vnode_res(link.s5, alloc.ret.val), LAMBDA p :
                        S5Res(p.s5, p.panic, link.ret))
              ELSE S5Res(link.s5, FALSE, Ok(alloc.ret.val))))

s5fs_link_res(s, dir, name, child) ==
    IF s.inodes[child].s5_type = "S5_TYPE_DIR" THEN S5Res(s, FALSE, Err("EISDIR"))
    ELSE s5_link(s, dir, name, child)

s5fs_unlink_res(s, dir, name) ==
    Then(s5_find_dirent(s, dir, name), LAMBDA ino :
    IF Negative(ino) THEN S5Res(s, FALSE, ino)
    ELSE S5Res(s5_remove_dirent(s, dir, name, ino.val), FALSE, Ok(0)))

\* the inodes reached from the root directory through directory entries
RECURSIVE S5ReachFrom(_, _)
S5ReachFrom(s, R) ==
    LET more == {e.ino : e \in UNION {s.inodes[d].ents : d \in R}} \cap Inos IN
    IF more \subseteq R THEN R ELSE S5ReachFrom(s, R \cup more)

S5Reachable(s) == S5ReachFrom(s, {RootIno})

\* s5fs_readdir: the result of s5_read_file, an error or the bytes read
s5fs_readdir(s, vnode, pos) == s5_read_file(s, vnode, pos, <<>>, 1).ret

\* calculate_refcounts from the root: the number of entries naming each
\* inode in the directories reached; `KASSERT(!ret)` when a read fails
calculate_refcounts(s) ==
    IF Negative(s5fs_readdir(s, RootIno, 0)) THEN [panic |-> TRUE, counts |-> <<>>]
    ELSE [panic |-> FALSE,
          counts |-> [i \in Inos |->
             Cardinality({de \in S5Reachable(s) \X (Inos \X S5Names) :
                            [name |-> de[2][2], ino |-> de[2][1]] \in s.inodes[de[1]].ents
                            /\ de[2][1] = i})]]

\* s5fs_check_refcounts: 0, or -1 when a counted inode's link count differs
s5fs_check_refcounts(s) ==
    Then(calculate_refcounts(s), LAMBDA c :
    IF c.panic THEN Err("KASSERT")
    ELSE IF \A i \in Inos : c.counts[i] = 0 \/ c.counts[i] = s.inodes[i].s5_linkcount
    THEN Ok(0) ELSE Err("-1"))

\* s5fs_umount panics when the check fails
s5fs_umount_res(s) ==
    Then(s5fs_check_refcounts(s), LAMBDA c :
    IF c = Err("KASSERT") THEN S5Res(s, TRUE, c)
    ELSE IF NonZero(c) THEN S5Res(s, TRUE, Err("linkcount corruption"))
    ELSE S5Res(s, FALSE, Ok(0)))

S5Call(op, ino, name, type, ret) ==
    [op |-> op, ino |-> ino, name |-> name, type |-> type, ret |-> ret]

s5_alloc_inode ==
    /\ ~panicked
    /\ \E type \in S5_TYPES, devid \in {0, DevId} :
          LET r == s5_alloc_inode_devid(s5, type, devid) IN
          /\ type = "S5_TYPE_DIR" => devid = 0
          /\ s5' = r.s5
          /\ panicked' = r.panic
          /\ last' = [op |-> "s5_alloc_inode", ino |-> NoInode, name |-> <<>>,
                      type |-> type, ret |-> r.ret, devid |-> devid]
    /\ UNCHANGED <<fdvars, vfsvars, lkvars, vm, ldisc>>

\* called for an inode no entry names (s5fs_delete_vnode, the undo of
\* s5fs_mkdir), in use or already freed
s5_free_inode ==
    /\ ~panicked
    /\ \E ino \in {i \in Inos : s5.inodes[i].s5_linkcount = 0} :
          LET r == s5_free_inode_res(s5, ino) IN
          /\ s5' = r.s5
          /\ panicked' = r.panic
          /\ last' = S5Call("s5_free_inode", ino, <<>>, s5.inodes[ino].s5_type, r.ret)
    /\ UNCHANGED <<fdvars, vfsvars, lkvars, vm, ldisc>>

s5fs_mkdir ==
    /\ ~panicked
    /\ \E dir \in {i \in Inos : s5.inodes[i].s5_type = "S5_TYPE_DIR"},
          name \in DirNames, mode \in S_IFDIR_type :
          LET r == s5fs_mkdir_res(s5, dir, name, mode) IN
          /\ s5' = r.s5
          /\ panicked' = r.panic
          /\ last' = S5Call("s5fs_mkdir", dir, name, mode, r.ret)
    /\ UNCHANGED <<fdvars, vfsvars, lkvars, vm, ldisc>>

s5fs_rmdir ==
    /\ ~panicked
    /\ \E parent \in {i \in Inos : s5.inodes[i].s5_type = "S5_TYPE_DIR"},
          name \in S5Names :
          \E r \in {s5fs_rmdir_res(s5, parent, name)} :
             /\ s5' = r.s5
             /\ panicked' = r.panic
             /\ last' = S5Call("s5fs_rmdir", parent, name, "", r.ret)
    /\ UNCHANGED <<fdvars, vfsvars, lkvars, vm, ldisc>>

\* rename of oldname in the root directory
s5fs_rename ==
    /\ ~panicked
    /\ \E oldname \in {<<"f">>, <<"n">>}, newdir \in {RootIno, InoD} \cap Inos,
          newname \in {<<"f">>, <<"n">>, <<"e">>}, wild \in BOOLEAN :
          \E r \in {s5fs_rename_res(s5, RootIno, oldname, newdir, newname, wild)} :
             /\ s5' = r.s5
             /\ panicked' = r.panic
             /\ last' = [op |-> "s5fs_rename", ino |-> RootIno, name |-> oldname,
                         type |-> "", ret |-> r.ret,
                         newdir |-> newdir, newname |-> newname]
    /\ UNCHANGED <<fdvars, vfsvars, lkvars, vm, ldisc>>

\* a read or a write of the file f, one byte at pos
s5_file_io ==
    /\ ~panicked
    /\ InoF \in Inos
    /\ \E pos \in {0, s5.inodes[InoF].s5_un}, op \in {"s5_read_file", "s5_write_file"} :
          IF op = "s5_read_file"
          THEN \E r \in {s5_read_file(s5, InoF, pos, <<"?">>, 1)} :
                  /\ last' = [op |-> op, ino |-> InoF, pos |-> pos, len |-> 1,
                              buf |-> r.buf, ret |-> r.ret]
                  /\ UNCHANGED <<s5, panicked>>
          ELSE \E r \in {s5_write_file(s5, InoF, pos, <<"x">>, 1)} :
                  /\ s5' = r.s5
                  /\ panicked' = r.panic
                  /\ last' = [op |-> op, ino |-> InoF, pos |-> pos, len |-> 1,
                              buf |-> <<"x">>, ret |-> r.ret]
    /\ UNCHANGED <<fdvars, vfsvars, lkvars, vm, ldisc>>

s5fs_mknod ==
    /\ ~panicked
    /\ \E mode \in {"S_IFREG", "S5_TYPE_DATA", "S_IFDIR"} :
          \E r \in {s5fs_mknod_res(s5, RootIno, <<"n">>, mode)} :
             /\ s5' = r.s5
             /\ panicked' = r.panic
             /\ last' = S5Call("s5fs_mknod", RootIno, <<"n">>, mode, r.ret)
    /\ UNCHANGED <<fdvars, vfsvars, lkvars, vm, ldisc>>

\* link of the file f or the directory e under the name n
s5fs_link ==
    /\ ~panicked
    /\ \E dir \in {RootIno, InoD} \cap Inos, child \in {InoF, InoE} \cap Inos :
          \E r \in {s5fs_link_res(s5, dir, <<"n">>, child)} :
             /\ s5' = r.s5
             /\ panicked' = r.panic
             /\ last' = S5Call("s5fs_link", dir, <<"n">>, s5.inodes[child].s5_type, r.ret)
    /\ UNCHANGED <<fdvars, vfsvars, lkvars, vm, ldisc>>

s5fs_unlink ==
    /\ ~panicked
    /\ \E dir \in {RootIno, InoD} \cap Inos, name \in {<<"f">>, <<"n">>} :
          \E r \in {s5fs_unlink_res(s5, dir, name)} :
             /\ s5' = r.s5
             /\ panicked' = r.panic
             /\ last' = S5Call("s5fs_unlink", dir, name, "", r.ret)
    /\ UNCHANGED <<fdvars, vfsvars, lkvars, vm, ldisc>>

s5fs_lookup ==
    /\ ~panicked
    /\ \E dir \in {RootIno, InoD} \cap Inos, name \in {Dot, <<"f">>, <<"n">>} :
          \E r \in {s5fs_lookup_res(s5, dir, name)} :
             last' = [op |-> "s5fs_lookup", ino |-> dir, name |-> name,
                      type |-> "", ret |-> r.ret, res |-> r.res, refs |-> r.refs]
    /\ UNCHANGED <<s5, panicked, fdvars, vfsvars, lkvars, vm, ldisc>>

\* s5_file_block_to_disk_block: every statement is commented out but
\* `return 0`
s5_file_block_to_disk_block(s, file_blocknum, alloc) == Ok(0)

\* vn_len of the vnode of f, in bytes: s5_size counts blocks of PAGE_SIZE here
s5_vn_len(s) == s.node.inode.s5_un * PAGE_SIZE

\* s5fs_get_pframe on the vnode of f. pf is the frame returned: of the block
\* device at a disk block, or of the vnode's own object at pagenum; evict
\* tells that mobj_find_pframe and mobj_free_pframe were called on the
\* vnode's object
s5fs_get_pframe_res(s, pagenum, forwrite) ==
    IF s5_vn_len(s) <= pagenum * PAGE_SIZE
    THEN [panic |-> FALSE, ret |-> Err("EINVAL"), pf |-> <<>>, evict |-> FALSE]
    ELSE Then(s5_file_block_to_disk_block(s, pagenum, forwrite), LAMBDA loc :
         IF Negative(loc)
         THEN [panic |-> FALSE, ret |-> loc, pf |-> <<>>, evict |-> FALSE]
         ELSE IF loc.val # 0
         THEN [panic |-> FALSE, ret |-> Ok(0), pf |-> <<"blockdev", loc.val>>,
               evict |-> TRUE]
         ELSE IF forwrite
         THEN [panic |-> TRUE, ret |-> Err("KASSERT"), pf |-> <<>>, evict |-> FALSE]
         ELSE [panic |-> FALSE, ret |-> Ok(0), pf |-> <<"vnode", pagenum>>,
               evict |-> FALSE])

s5fs_get_pframe ==
    /\ ~panicked
    /\ s5.node.live
    /\ \E pagenum \in 0 .. (S5_NDIRECT_BLOCKS + 1), forwrite \in BOOLEAN :
          \E r \in {s5fs_get_pframe_res(s5, pagenum, forwrite)} :
             /\ panicked' = r.panic
             /\ last' = [op |-> "s5fs_get_pframe", ino |-> InoF, name |-> <<>>,
                         type |-> "", ret |-> r.ret, pagenum |-> pagenum,
                         forwrite |-> forwrite, pf |-> r.pf, evict |-> r.evict]
    /\ UNCHANGED <<s5, fdvars, vfsvars, lkvars, vm, ldisc>>

\* the operations that are not NULL in the two tables of vnode operations
s5fs_dir_vops ==
    {"mknod", "lookup", "link", "unlink", "rename", "mkdir", "rmdir",
     "readdir", "stat", "get_pframe", "fill_pframe"}

s5fs_file_vops ==
    {"read", "write", "mmap", "stat", "get_pframe", "fill_pframe",
     "truncate_file"}

\* `vn->vn_ops = NULL`
NoVops == {}

S_IF_MODES == {"S_IFCHR", "S_IFDIR", "S_IFBLK", "S_IFREG", "S_IFLNK", "S_IFIFO"}

\* the vnode handed to s5fs_read_vnode: vn_mode and vn_len are whatever the
\* caller left in them, the function reads the first before it writes it
NewVnode(vno, mode0, len0) ==
    [vn_vno |-> vno, vn_mode |-> mode0, vn_len |-> len0, vn_devid |-> 0,
     vn_ops |-> NoVops, inode |-> <<>>, dirtied_inode |-> TRUE]

\* s5fs_read_vnode. `wild` is what the memcpy finds at
\* `&pf->pf_addr + S5_INODE_OFFSET(vn->vn_vno)`: the address of the frame's
\* pointer field plus the offset, not the inode's place in the page
s5fs_read_vnode_res(s, vn, wild) ==
    LET inode == wild
        v1 == [vn EXCEPT !.inode = inode, !.dirtied_inode = FALSE,
                         !.vn_ops = NoVops]
        v2 == IF v1.vn_mode \in {"S_IFCHR", "S_IFBLK"}
              THEN [v1 EXCEPT !.vn_devid = inode.s5_indirect_block]
              ELSE v1
        \* `//vn->vn_len = inode->s5_size;`
        v3 == IF v2.vn_mode \in {"S_IFDIR", "S_IFREG"}
              THEN [v2 EXCEPT !.vn_ops = s5fs_file_vops]
              ELSE v2
    IN  IF vn.vn_mode \notin S_IF_MODES
        THEN [panic |-> TRUE, vn |-> v1]
        ELSE [panic |-> FALSE,
              vn |-> [v3 EXCEPT !.vn_mode = inode.s5_type,
                                !.vn_ops = s5fs_file_vops]]

\* vget of an inode that has no vnode yet
s5fs_read_vnode ==
    /\ ~panicked
    /\ \E vno \in Inos \ {InoF}, mode0 \in S_IF_MODES \cup {"0"} :
       \E wild \in {s5.inodes[vno], s5.inodes[InoF]} :
          \E r \in {s5fs_read_vnode_res(s5, NewVnode(vno, mode0, 0), wild)} :
             /\ panicked' = r.panic
             /\ last' = [op |-> "s5fs_read_vnode", ino |-> vno, name |-> <<>>,
                         type |-> "", ret |-> Ok(0), vn |-> r.vn]
    /\ UNCHANGED <<s5, fdvars, vfsvars, lkvars, vm, ldisc>>

s5fs_umount ==
    /\ ~panicked
    /\ \E r \in {s5fs_umount_res(s5)} :
          /\ s5' = r.s5
          /\ panicked' = r.panic
          /\ last' = S5Call("s5fs_umount", RootIno, <<>>, "", r.ret)
    /\ UNCHANGED <<fdvars, vfsvars, lkvars, vm, ldisc>>

\* the file f is opened with O_TRUNC
s5fs_truncate_file ==
    /\ ~panicked
    /\ s5.node.live
    /\ \E r \in {s5fs_truncate_file_res(s5)} :
          /\ s5' = r.s5
          /\ panicked' = r.panic
          /\ last' = S5Call("s5fs_truncate_file", InoF, <<>>, "", r.ret)
    /\ UNCHANGED <<fdvars, vfsvars, lkvars, vm, ldisc>>

\* the last reference to the vnode of f is dropped. The copy of a dirtied
\* inode goes to a wrong address: the kernel faults or goes on
s5fs_delete_vnode ==
    /\ ~panicked
    /\ s5.node.live
    /\ \E wild \in BOOLEAN :
       \E r \in {s5fs_delete_vnode_res(s5, InoF)} :
          /\ s5' = r.s5
          /\ panicked' = (r.panic \/ (wild /\ s5.node.dirtied_inode))
          /\ last' = S5Call("s5fs_delete_vnode", InoF, <<>>, "", r.ret)
    /\ UNCHANGED <<fdvars, vfsvars, lkvars, vm, ldisc>>

InitS5 ==
    /\ IdleFd /\ IdleVfs /\ IdleS5 /\ IdleLk /\ IdleVm /\ IdleLdisc
    /\ panicked = FALSE
    /\ last = S5Call("idle", NoInode, <<>>, "", Ok(0))

NextS5 ==
    \/ s5_alloc_inode \/ s5_free_inode \/ s5fs_mkdir \/ s5fs_rmdir
    \/ s5fs_rename \/ s5_file_io
    \/ s5fs_mknod \/ s5fs_link \/ s5fs_unlink \/ s5fs_umount
    \/ s5fs_truncate_file \/ s5fs_delete_vnode
    \/ s5fs_lookup \/ s5fs_get_pframe \/ s5fs_read_vnode

\* The S5FS inode table under allocation, release and mkdir
SpecS5 == InitS5 /\ [][NextS5]_vars

-----------------------------------------------------------------------------
(* Threads taking vnode mutexes in the directory calls *)

\* namev_is_descendant(a, b): a lies below b (or is b) in the tree
namev_is_descendant(a, b) == a = b \/ (b = 1 /\ LkIsDir(a))

\* vlock_in_order(a, b): the vnodes in the order their mutexes are taken,
\* an ancestor first, else the lower inode number first; one vnode once
vlock_in_order(a, b) ==
    IF a = b THEN <<a>>
    ELSE IF LkIsDir(a) /\ LkIsDir(b) /\ namev_is_descendant(a, b) THEN <<b, a>>
    ELSE IF LkIsDir(a) /\ LkIsDir(b) /\ namev_is_descendant(b, a) THEN <<a, b>>
    ELSE IF a < b THEN <<a, b>> ELSE <<b, a>>

\* The mutexes a call takes before it calls into the file system:
\* do_mkdir, do_rmdir and do_unlink lock the parent directory, do_link the
\* file and the directory, do_rename the two directories.
LkCalls ==
    { [op |-> o, todo |-> <<d>>] :
         o \in {"do_mkdir", "do_rmdir", "do_unlink"}, d \in {v \in LkVnodes : LkIsDir(v)} }
    \cup { [op |-> "do_link", todo |-> vlock_in_order(f, d)] :
               f \in {v \in LkVnodes : ~LkIsDir(v)}, d \in {v \in LkVnodes : LkIsDir(v)} }
    \cup { [op |-> "do_rename", todo |-> vlock_in_order(a, b)] :
               a \in {v \in LkVnodes : LkIsDir(v)}, b \in {v \in LkVnodes : LkIsDir(v)} }

\* a thread enters one of the calls
lk_call ==
    /\ \E t \in Threads, c \in LkCalls :
          /\ thr[t].pc = "idle"
          /\ thr' = [thr EXCEPT ![t] = [pc |-> "locking", op |-> c.op,
                                        todo |-> c.todo, held |-> {}]]
    /\ UNCHANGED <<km, vn_data, fdvars, vfsvars, s5, vm, ldisc, panicked, last>>

\* vlock: the thread takes the next mutex when nobody holds it, and waits
\* as long as somebody does
lk_vlock ==
    /\ \E t \in Threads :
          /\ thr[t].pc = "locking"
          /\ km[Head(thr[t].todo)] = NoThread
          /\ km' = [km EXCEPT ![Head(thr[t].todo)] = t]
          /\ thr' = [thr EXCEPT ![t].todo = Tail(@),
                                ![t].held = @ \cup {Head(thr[t].todo)},
                                ![t].pc = IF Tail(thr[t].todo) = <<>> THEN "locked"
                                          ELSE "locking"]
    /\ UNCHANGED <<vn_data, fdvars, vfsvars, s5, vm, ldisc, panicked, last>>

\* The mutexes a call still holds when it returns ret from the file system
\* operation: do_rename returns a failure of the rename operation at once,
\* the other paths unlock what they locked.
lk_left(op, ret, held) ==
    IF op = "do_rename" /\ ret # "OK" THEN held ELSE {}

\* the file system operation returns and the call unwinds
lk_return ==
    /\ \E t \in Threads, ret \in {"OK", "ENOENT"} :
          /\ thr[t].pc = "locked"
          /\ km' = [v \in LkVnodes |->
                      IF v \in thr[t].held \ lk_left(thr[t].op, ret, thr[t].held)
                      THEN NoThread ELSE km[v]]
          /\ thr' = [thr EXCEPT ![t] = IdleThread]
    /\ UNCHANGED <<vn_data, fdvars, vfsvars, s5, vm, ldisc, panicked, last>>

InitLock ==
    /\ IdleFd /\ IdleVfs /\ IdleS5 /\ IdleLk /\ IdleVm /\ IdleLdisc
    /\ panicked = FALSE
    /\ last = S5Call("idle", NoInode, <<>>, "", Ok(0))

NextLock == lk_call \/ lk_vlock \/ lk_return

\* Threads in do_link, do_rename, do_unlink, do_rmdir and do_mkdir
SpecLock == InitLock /\ [][NextLock]_vars

-----------------------------------------------------------------------------
(* The address space: vm/vmmap.c and vm/mmap.c *)

VMMAP_DIRS == {"VMMAP_DIR_LOHI", "VMMAP_DIR_HILO"}

VmRes(v, panic, ret) == [vm |-> v, panic |-> panic, ret |-> ret]

\* mobj_ref: one more reference to the object
mobj_ref(mo, o) == [mo EXCEPT ![o].mo_refcount = @ + 1]

\* vmmap_insert: the area goes before the first area that starts above it,
\* at the tail when there is none
RECURSIVE vmmap_insert_at(_, _, _)
vmmap_insert_at(list, new_vma, i) ==
    IF i > Len(list) THEN Append(list, new_vma)
    ELSE IF new_vma.vma_start < list[i].vma_start
    THEN SubSeq(list, 1, i - 1) \o <<new_vma>> \o SubSeq(list, i, Len(list))
    ELSE vmmap_insert_at(list, new_vma, i + 1)

\* mutant: the area is always put at the tail
vmmap_insert_tail(list, new_vma) == Append(list, new_vma)

vmmap_insert_res(list, new_vma) == vmmap_insert_at(list, new_vma, 1)

\* `a - b >= n` on size_t: a difference below zero wraps to a huge value
size_t_diff_ge(a, b, n) == IF a >= b THEN a - b >= n ELSE TRUE

\* the list_iterate_reverse loop of VMMAP_DIR_HILO, at area i with candidate vfn
RECURSIVE find_range_hilo(_, _, _)
find_range_hilo(list, i, vfn) ==
    IF i = 0 THEN vfn
    ELSE IF list[i].vma_start > vfn THEN vfn
    ELSE find_range_hilo(list, i - 1, list[i].vma_end + 1)

\* the list_iterate loop of VMMAP_DIR_LOHI
RECURSIVE find_range_lohi(_, _, _, _)
find_range_lohi(list, i, vfn, npages) ==
    IF i > Len(list) THEN vfn
    ELSE IF size_t_diff_ge(list[i].vma_start, vfn, npages) THEN vfn
    ELSE find_range_lohi(list, i + 1, list[i].vma_end, npages)

\* vmmap_find_range: a start page, or -1
vmmap_find_range_res(list, npages, dir) ==
    IF npages > (USER_MEM_HIGH - USER_MEM_LOW) \div PAGE_SIZE THEN -1
    ELSE IF dir = "VMMAP_DIR_HILO"
    THEN find_range_hilo(list, Len(list), ADDR_TO_PN(USER_MEM_HIGH) - npages)
    ELSE IF dir = "VMMAP_DIR_LOHI"
    THEN find_range_lohi(list, 1, ADDR_TO_PN(USER_MEM_LOW), npages)
    ELSE -1

\* vmmap_lookup: the position in the list of the first area with
\* vma_start <= vfn and vma_end >= vfn, NULL when there is none
vmmap_lookup_res(list, vfn) ==
    IF vfn < ADDR_TO_PN(USER_MEM_LOW) \/ vfn > ADDR_TO_PN(USER_MEM_HIGH) THEN NULL
    ELSE LET hits == {i \in 1 .. Len(list) :
                        list[i].vma_start <= vfn /\ list[i].vma_end >= vfn}
         IN  IF hits = {} THEN NULL
             ELSE CHOOSE i \in hits : \A j \in hits : i <= j

\* vmmap_create: not implemented, returns NULL
vmmap_create == NULL

\* vmmap_destroy: an empty function body
vmmap_destroy(v, new_map) == v

\* shadow_create (vm/shadow.c): a new shadow object over o, holding a
\* reference on it
shadow_create(mo, o) ==
    Append(mobj_ref(mo, o),
           [mo_type |-> "MOBJ_SHADOW", mo_refcount |-> 1, shadowed |-> o])

\* mobj_put: one reference less
mobj_put(mo, o) == [mo EXCEPT ![o].mo_refcount = @ - 1]

\* the loop of vmmap_clone at area i of the source map; fail is the position
\* of the area at which an allocation fails (0: none does)
RECURSIVE vmmap_clone_loop(_, _, _, _)
vmmap_clone_loop(v, new_list, i, fail) ==
    IF i > Len(v.areas) THEN [vm |-> v, ret |-> Ok(new_list)]
    ELSE IF fail = i THEN [vm |-> vmmap_destroy(v, new_list), ret |-> Err("NULL")]
    ELSE LET vma == v.areas[i]
             m1 == mobj_ref(v.mo, vma.vma_obj)
         IN  IF "MAP_SHARED" \in vma.vma_flags
             THEN vmmap_clone_loop([v EXCEPT !.mo = m1], Append(new_list, vma),
                                   i + 1, fail)
             ELSE LET m2 == shadow_create(m1, vma.vma_obj)
                      m3 == shadow_create(m2, vma.vma_obj)
                      new_shadow == Len(m2)
                      old_shadow == Len(m3)
                  IN  vmmap_clone_loop(
                          [v EXCEPT !.mo = mobj_put(m3, vma.vma_obj),
                                    !.areas[i].vma_obj = old_shadow],
                          Append(new_list, [vma EXCEPT !.vma_obj = new_shadow]),
                          i + 1, fail)

\* mutant: the first area's object is referenced before the new map is asked for
vmmap_clone_ref_first(v, fail) ==
    [vm |-> IF v.areas = <<>> THEN v
            ELSE [v EXCEPT !.mo = mobj_ref(v.mo, v.areas[1].vma_obj)],
     ret |-> Err("NULL")]

\* vmmap_clone: the areas of the new map, or NULL
vmmap_clone_res(v, fail) ==
    IF vmmap_create = NULL THEN [vm |-> v, ret |-> Err("NULL")]
    ELSE vmmap_clone_loop(v, <<>>, 1, fail)

\* vmmap_remove: not implemented, returns -1
vmmap_remove_res(v, lopage, npages) == VmRes(v, FALSE, Err("-1"))

\* s5fs_mmap: a reference on the vnode's object, which is returned
s5fs_mmap(mo, file) == mobj_ref(mo, file)

\* anon_create (vm/anon.c): a new anonymous object holding one reference
anon_create(mo) ==
    Append(mo, [mo_type |-> "MOBJ_ANON", mo_refcount |-> 1, shadowed |-> NULL])

\* the part of vmmap_map after the memory object was obtained: the range is
\* looked for or cleared, and 0 is returned; no area is made
vmmap_map_range(v, lopage, npages, flags, dir) ==
    IF lopage = 0
    THEN LET result == vmmap_find_range_res(v.areas, npages, dir)
         IN  IF result < 0 THEN VmRes(v, FALSE, Err("-1"))
             ELSE VmRes(v, FALSE, Ok(0))
    ELSE IF "MAP_FIXED" \in flags
    THEN VmRes(vmmap_remove_res(v, lopage, npages).vm, FALSE, Ok(0))
    ELSE VmRes(v, FALSE, Ok(0))

\* vmmap_map. With file NULL the object made by anon_create is stored through
\* the null pointer (`file->vn_mobj = *anon`): the kernel faults, or (wild)
\* the store goes unnoticed and the call goes on.
vmmap_map_res(v, file, lopage, npages, prot, flags, off, dir, nomem, wild) ==
    IF file = NULL
    THEN IF nomem THEN VmRes(v, FALSE, Err("ENOMEM"))
         ELSE LET v1 == [v EXCEPT !.mo = anon_create(v.mo)]
              IN  IF ~wild THEN VmRes(v1, TRUE, Err("fault"))
                  ELSE vmmap_map_range(v1, lopage, npages, flags, dir)
    ELSE vmmap_map_range([v EXCEPT !.mo = s5fs_mmap(v.mo, file)],
                         lopage, npages, flags, dir)

\* do_munmap: the checks, then vmmap_remove on ADDR_TO_PN(addr) and
\* ADDR_TO_PN(len); call is the page range vmmap_remove was given
do_munmap_res(v, addr, len) ==
    IF addr % PAGE_SIZE # 0 THEN [vm |-> v, ret |-> Err("EINVAL"), call |-> <<>>]
    ELSE IF len = 0 THEN [vm |-> v, ret |-> Err("EINVAL"), call |-> <<>>]
    ELSE IF addr < USER_MEM_LOW \/ addr > USER_MEM_HIGH
    THEN [vm |-> v, ret |-> Err("EINVAL"), call |-> <<>>]
    ELSE LET r == vmmap_remove_res(v, ADDR_TO_PN(addr), ADDR_TO_PN(len))
         IN  [vm |-> r.vm, ret |-> r.ret,
              call |-> <<ADDR_TO_PN(addr), ADDR_TO_PN(len)>>]

-----------------------------------------------------------------------------
(* The calls on the address space *)

VmFlags == {{"MAP_SHARED"}, {"MAP_PRIVATE"}}

VmCall(op, a, b, c, ret) == [op |-> op, a |-> a, b |-> b, c |-> c, ret |-> ret]

\* the half-open page ranges [s1, e1) and [s2, e2) share a page
Overlap(s1, e1, s2, e2) == s1 < e2 /\ s2 < e1

\* The areas a caller may insert: non-empty, inside the user range, over the
\* object of a vnode on which the area holds a reference, and overlapping no
\* area of the map
NewAreas(v) ==
    {[vma_start |-> s, vma_end |-> e, vma_off |-> 0, vma_prot |-> {"PROT_READ"},
      vma_flags |-> f, vma_obj |-> o] :
        s \in LowPn .. (HighPn - 1), e \in (LowPn + 1) .. HighPn,
        f \in VmFlags, o \in 1 .. MaxObjs}

vmmap_insert ==
    /\ ~panicked
    /\ \E new_vma \in NewAreas(vm) :
          /\ new_vma.vma_start < new_vma.vma_end
          /\ \A i \in 1 .. Len(vm.areas) :
                ~Overlap(new_vma.vma_start, new_vma.vma_end,
                         vm.areas[i].vma_start, vm.areas[i].vma_end)
          /\ vm' = [vm EXCEPT !.areas = vmmap_insert_res(vm.areas, new_vma),
                              !.mo = mobj_ref(vm.mo, new_vma.vma_obj)]
          /\ last' = VmCall("vmmap_insert", new_vma.vma_start, new_vma.vma_end,
                            0, Ok(0))
    /\ UNCHANGED <<fdvars, vfsvars, s5, lkvars, ldisc, panicked>>

vmmap_find_range ==
    /\ ~panicked
    /\ \E npages \in 1 .. (MaxPages + 1), dir \in VMMAP_DIRS :
          last' = VmCall("vmmap_find_range", npages, dir, 0,
                         vmmap_find_range_res(vm.areas, npages, dir))
    /\ UNCHANGED <<fdvars, vfsvars, s5, lkvars, vm, ldisc, panicked>>

vmmap_lookup ==
    /\ ~panicked
    /\ \E vfn \in 0 .. (HighPn + 1) :
          last' = VmCall("vmmap_lookup", vfn, 0, 0,
                         vmmap_lookup_res(vm.areas, vfn))
    /\ UNCHANGED <<fdvars, vfsvars, s5, lkvars, vm, ldisc, panicked>>

\* every allocator has memory (fail = 0) or fails at some area
vmmap_clone ==
    /\ ~panicked
    /\ \E fail \in 0 .. Len(vm.areas) :
          \E r \in {vmmap_clone_res(vm, fail)} :
             /\ vm' = r.vm
             /\ last' = VmCall("vmmap_clone", fail, 0, 0, r.ret)
    /\ UNCHANGED <<fdvars, vfsvars, s5, lkvars, ldisc, panicked>>

\* the objects the calls have left without an owner: anonymous objects no
\* area names, and references on vnode objects beyond the vnode's and the areas'
VmLeaked(v) ==
    Len(v.mo) - MaxObjs
    + Cardinality({o \in 1 .. MaxObjs :
         v.mo[o].mo_refcount >
            1 + Cardinality({i \in 1 .. Len(v.areas) : v.areas[i].vma_obj = o})})

\* The arguments of vmmap_map: a direction matters when no page is given,
\* MAP_FIXED when one is, the outcome of anon_create when no file is
VmMapArgs ==
    {a \in [file : {NULL, 1}, lopage : {0, LowPn}, npages : {1, MaxPages},
            flags : {f \cup x : f \in VmFlags, x \in {{}, {"MAP_FIXED"}}},
            dir : VMMAP_DIRS, nomem : BOOLEAN, wild : BOOLEAN] :
        /\ a.file # NULL => ~a.nomem /\ a.wild
        /\ a.nomem => a.wild
        /\ a.lopage # 0 => a.dir = "VMMAP_DIR_HILO"
        /\ a.lopage = 0 => "MAP_FIXED" \notin a.flags}

vmmap_map ==
    /\ ~panicked
    /\ VmLeaked(vm) < MaxVmLeak
    /\ \E a \in VmMapArgs :
          \E r \in {vmmap_map_res(vm, a.file, a.lopage, a.npages, {"PROT_READ"},
                                  a.flags, 0, a.dir, a.nomem, a.wild)} :
             /\ vm' = r.vm
             /\ panicked' = r.panic
             /\ last' = [op |-> "vmmap_map", file |-> a.file, lopage |-> a.lopage,
                         npages |-> a.npages, flags |-> a.flags, dir |-> a.dir,
                         ret |-> r.ret]
    /\ UNCHANGED <<fdvars, vfsvars, s5, lkvars, ldisc>>

vmmap_remove ==
    /\ ~panicked
    /\ \E lopage \in {LowPn, LowPn + 1}, npages \in {1, MaxPages - 1} :
          \E r \in {vmmap_remove_res(vm, lopage, npages)} :
             /\ vm' = r.vm
             /\ last' = VmCall("vmmap_remove", lopage, npages, 0, r.ret)
    /\ UNCHANGED <<fdvars, vfsvars, s5, lkvars, ldisc, panicked>>

do_munmap ==
    /\ ~panicked
    /\ \E addr \in {USER_MEM_LOW, USER_MEM_LOW + 1, USER_MEM_HIGH - PAGE_SIZE,
                     USER_MEM_HIGH, USER_MEM_HIGH + PAGE_SIZE},
          len \in {0, 1, PAGE_SIZE, 2 * PAGE_SIZE} :
          \E r \in {do_munmap_res(vm, addr, len)} :
             /\ vm' = r.vm
             /\ last' = VmCall("do_munmap", addr, len, r.call, r.ret)
    /\ UNCHANGED <<fdvars, vfsvars, s5, lkvars, ldisc, panicked>>

InitVm ==
    /\ IdleFd /\ IdleVfs /\ IdleS5 /\ IdleLk /\ IdleVm /\ IdleLdisc
    /\ panicked = FALSE
    /\ last = VmCall("idle", 0, 0, 0, Ok(0))

NextVm ==
    \/ vmmap_insert \/ vmmap_find_range \/ vmmap_lookup \/ vmmap_clone
    \/ vmmap_map \/ vmmap_remove \/ do_munmap

\* One address space and the calls that look into it and change it
SpecVm == InitVm /\ [][NextVm]_vars

-----------------------------------------------------------------------------
(* Threads allocating and freeing inodes under the super block mutex *)

\* s5fs->s5f_mutex, taken by s5_lock_super
SuperMutex == "s5f_mutex"

\* s5_free_block: lock, the update of the array, unlock
s5_free_block_steps == <<"s5_lock_super", "free_block", "s5_unlock_super">>

\* s5_alloc_inode: lock, the head is read, then either unlock and ENOSPC or
\* the head is moved on, the inode initialised, and unlock
s5_alloc_inode_steps == <<"s5_lock_super", "read_head", "take", "s5_unlock_super">>

\* mutant: the blocks are freed before the super block is unlocked
s5_free_inode_steps_late ==
    <<"s5_lock_super", "push", "free_blocks", "s5_unlock_super">>

\* s5_free_inode: lock, the inode is pushed on the list and its block
\* pointers are copied to the stack, unlock, then the blocks are freed
s5_free_inode_steps ==
    <<"s5_lock_super", "push", "s5_unlock_super", "free_blocks">>

\* the blocks s5_free_inode frees: the direct blocks, the entries of the
\* indirect block, the indirect block, without the zeros
BlocksToFree(s, inode) ==
    IF inode.s5_type \notin {"S5_TYPE_DATA", "S5_TYPE_DIR"} THEN <<>>
    ELSE LET all == inode.s5_direct_blocks
                      \o (IF inode.s5_indirect_block = 0 THEN <<>>
                          ELSE s.blk[inode.s5_indirect_block]
                                 \o <<inode.s5_indirect_block>>)
         IN  SelectSeq(all, LAMBDA b : b # 0)

SbThread(op, ino, todo, got) ==
    [pc |-> IF todo = <<>> THEN "idle" ELSE "running", op |-> op, todo |-> todo,
     held |-> {}, ino |-> ino, new_ino |-> NoInode, blocks |-> <<>>,
     ret |-> Ok(0), got |-> got, stuck |-> FALSE]

\* a thread calls s5_alloc_inode, or s5_free_inode on an inode it holds
sb_call ==
    /\ ~panicked
    /\ \E t \in Threads :
          /\ thr[t].pc = "idle"
          /\ \/ thr' = [thr EXCEPT ![t] =
                          SbThread("s5_alloc_inode", NoInode, s5_alloc_inode_steps,
                                   thr[t].got)]
             \/ \E ino \in thr[t].got :
                   thr' = [thr EXCEPT ![t] =
                             SbThread("s5_free_inode", ino, s5_free_inode_steps,
                                      thr[t].got \ {ino})]
    /\ UNCHANGED <<km, vn_data, s5, panicked, fdvars, vfsvars, vm, ldisc, last>>

\* The next statement of a thread. s5_lock_super waits while another thread
\* holds the mutex; a thread that holds it itself waits for ever.
sb_step ==
    /\ ~panicked
    /\ \E t \in Threads :
          LET me == thr[t]
              step == Head(me.todo)
              on == [me EXCEPT !.todo = Tail(@),
                               !.pc = IF Tail(me.todo) = <<>> THEN "idle" ELSE @]
          IN
          /\ me.pc = "running" /\ ~me.stuck
          /\ CASE step = "s5_lock_super" ->
                    IF km[SuperMutex] = t
                    THEN /\ thr' = [thr EXCEPT ![t].stuck = TRUE]
                         /\ UNCHANGED <<km, s5, panicked>>
                    ELSE /\ km[SuperMutex] = NoThread
                         /\ km' = [km EXCEPT ![SuperMutex] = t]
                         /\ thr' = [thr EXCEPT ![t] = [on EXCEPT !.held = {SuperMutex}]]
                         /\ UNCHANGED <<s5, panicked>>
               [] step = "s5_unlock_super" ->
                    /\ km' = [km EXCEPT ![SuperMutex] = NoThread]
                    /\ thr' = [thr EXCEPT ![t] = [on EXCEPT !.held = {}]]
                    /\ UNCHANGED <<s5, panicked>>
               [] step = "read_head" ->
                    /\ thr' = [thr EXCEPT ![t] =
                                 [on EXCEPT !.new_ino = s5.s5s_free_inode]]
                    /\ UNCHANGED <<km, s5, panicked>>
               [] step = "take" ->
                    IF me.new_ino = NoInode
                    THEN /\ thr' = [thr EXCEPT ![t] = [on EXCEPT !.ret = Err("ENOSPC")]]
                         /\ UNCHANGED <<km, s5, panicked>>
                    ELSE LET r == s5_alloc_inode_devid(
                                      [s5 EXCEPT !.s5s_free_inode = me.new_ino],
                                      "S5_TYPE_DATA", 0) IN
                         /\ s5' = r.s5
                         /\ panicked' = r.panic
                         /\ thr' = [thr EXCEPT ![t] =
                                      [on EXCEPT !.ret = r.ret,
                                                 !.got = @ \cup {me.new_ino}]]
                         /\ UNCHANGED km
               [] step = "push" ->
                    LET inode == s5.inodes[me.ino] IN
                    /\ s5' = [s5 EXCEPT !.s5s_free_inode = me.ino,
                                        !.inodes[me.ino] =
                                            [inode EXCEPT !.s5_type = "S5_TYPE_FREE",
                                                          !.s5_un = s5.s5s_free_inode]]
                    /\ panicked' = (inode.s5_type \notin S5_TYPES)
                    /\ thr' = [thr EXCEPT ![t] =
                                 [on EXCEPT !.blocks = BlocksToFree(s5, inode)]]
                    /\ UNCHANGED km
               [] step = "free_blocks" ->
                    /\ thr' = [thr EXCEPT ![t] =
                                 IF me.blocks = <<>> THEN on
                                 ELSE [me EXCEPT !.todo = s5_free_block_steps \o @]]
                    /\ UNCHANGED <<km, s5, panicked>>
               [] step = "free_block" ->
                    LET r == s5_free_block(s5, Head(me.blocks)) IN
                    /\ s5' = r.s5
                    /\ panicked' = r.panic
                    /\ thr' = [thr EXCEPT ![t] = [on EXCEPT !.blocks = Tail(@)]]
                    /\ UNCHANGED km
    /\ UNCHANGED <<vn_data, fdvars, vfsvars, vm, ldisc, last>>

\* the disk as mounted; the file f has lost its links while it was open, and
\* the first thread is the one that drops the last reference to it
InitSuper ==
    /\ IdleFd /\ IdleVfs /\ IdleVm /\ IdleLdisc
    /\ s5 = [BootS5 EXCEPT !.inodes[InoF].s5_linkcount = 0,
                           !.inodes[RootIno].ents =
                               {e \in @ : e.ino # InoF},
                           !.inodes[InoD].ents = {e \in @ : e.ino # InoF}]
    /\ km = [m \in {SuperMutex} |-> NoThread]
    /\ thr = [t \in Threads |->
                SbThread("none", NoInode, <<>>, IF t = 1 THEN {InoF} ELSE {})]
    /\ vn_data = <<>>
    /\ panicked = FALSE
    /\ last = S5Call("idle", NoInode, <<>>, "", Ok(0))

NextSuper == sb_call \/ sb_step

\* Threads allocating and freeing inodes of one file system
SpecSuper == InitSuper /\ [][NextSuper]_vars

-----------------------------------------------------------------------------
(* Threads in do_read and do_write on the files of one process *)

\* the mutex (vn_mutex) of the vnode of an open file
FdMutex(v) == IF S_ISDIR_v(v) THEN 1 ELSE MaxLkVnodes

\* mutant: the append position is taken before the vnode is locked
do_write_steps_early(append) ==
    (IF append THEN <<"append">> ELSE <<>>)
      \o <<"vlock", "op_call", "op_return", "pos", "vunlock", "fput">>

\* The statements of do_write once the file is open for writing, in order:
\* vlock; with FMODE_APPEND f_pos = vn_len; the write operation, called and
\* returning; the position update; vunlock; fput
do_write_steps(append) ==
    <<"vlock">> \o (IF append THEN <<"append">> ELSE <<>>)
      \o <<"op_call", "op_return", "pos", "vunlock", "fput">>

\* The statements of do_read once the file is open for reading and is no
\* directory
do_read_steps == <<"vlock", "op_call", "op_return", "pos", "vunlock", "fput">>

\* the highest write number in the file; writes are numbered as they happen
RECURSIVE MaxByte(_)
MaxByte(data) ==
    IF data = <<>> THEN 0 ELSE Max(Head(data), MaxByte(Tail(data)))

\* the file after n bytes b were written at pos
vn_write_data(data, pos, n, b) ==
    [i \in 1 .. Max(Len(data), pos + n) |->
        IF i > pos /\ i <= pos + n THEN b
        ELSE IF i <= Len(data) THEN data[i] ELSE 0]

RwThread(op, h, len, todo) ==
    [pc |-> "running", op |-> op, todo |-> todo, held |-> {}, h |-> h,
     len |-> len, pos |-> 0, ret |-> Ok(0), buf |-> <<>>, seen |-> vn_data,
     wrote |-> <<>>]

RwIdle == [RwThread("none", NULL, 0, <<>>) EXCEPT !.pc = "idle"]

\* The entry of do_read and do_write: fget, the mode test and, in do_read,
\* the directory test. A call that fails here returns at once.
rw_call ==
    /\ \E t \in Threads, op \in {"do_read", "do_write"}, fd \in Fds,
          len \in 1 .. MaxRwLen :
          LET h == fget(p_files, fd)
              md == IF op = "do_read" THEN "FMODE_READ" ELSE "FMODE_WRITE" IN
          /\ thr[t].pc = "idle"
          /\ h # NULL
          /\ IF md \notin files[h].f_mode
                \/ (op = "do_read" /\ S_ISDIR_v(files[h].f_vnode))
             THEN /\ thr' = [thr EXCEPT ![t] =
                               [RwThread(op, h, len, <<>>) EXCEPT
                                   !.pc = "idle",
                                   !.ret = IF md \notin files[h].f_mode
                                           THEN Err("EBADF") ELSE Err("EISDIR")]]
                  /\ UNCHANGED files
             ELSE /\ thr' = [thr EXCEPT ![t] =
                               RwThread(op, h, len,
                                        IF op = "do_read" THEN do_read_steps
                                        ELSE do_write_steps(
                                               "FMODE_APPEND" \in files[h].f_mode))]
                  /\ files' = fref(files, h)
    /\ UNCHANGED <<p_files, vn_len, km, vn_data, vfsvars, s5, vm, ldisc, panicked, last>>

\* The next statement of a thread. vlock waits while another thread holds
\* the mutex; the vnode operation reads and writes the file when it returns.
rw_step ==
    /\ \E t \in Threads, fail \in BOOLEAN :
          LET me == thr[t]
              h == me.h
              v == files[h].f_vnode
              m == FdMutex(v)
              step == Head(me.todo)
              on == [me EXCEPT !.todo = Tail(@),
                               !.pc = IF Tail(me.todo) = <<>> THEN "idle" ELSE @]
          IN
          /\ me.pc = "running"
          /\ step \in {"op_return"} \/ ~fail
          /\ CASE step = "vlock" ->
                    /\ km[m] = NoThread
                    /\ km' = [km EXCEPT ![m] = t]
                    /\ thr' = [thr EXCEPT ![t] = [on EXCEPT !.held = {m}]]
                    /\ UNCHANGED <<files, vn_len, vn_data>>
               [] step = "append" ->
                    /\ files' = write_append_pos(files, vn_len, h)
                    /\ thr' = [thr EXCEPT ![t] = on]
                    /\ UNCHANGED <<km, vn_len, vn_data>>
               [] step = "op_call" ->
                    /\ thr' = [thr EXCEPT ![t] = [on EXCEPT !.pos = files[h].f_pos]]
                    /\ UNCHANGED <<km, files, vn_len, vn_data>>
               [] step = "op_return" /\ me.op = "do_read" ->
                    LET ret == vn_read(vn_len, v, me.pos, me.len, fail) IN
                    /\ thr' = [thr EXCEPT ![t] =
                                 [on EXCEPT !.ret = ret,
                                            !.buf = SubSeq(vn_data, me.pos + 1,
                                                           me.pos + ret.val)]]
                    /\ UNCHANGED <<km, files, vn_len, vn_data>>
               [] step = "op_return" /\ me.op = "do_write" ->
                    LET ret == vn_write(vn_len, v, me.pos, me.len, fail) IN
                    /\ MaxByte(vn_data) < MaxWrites
                    /\ vn_len' = vn_write_len(vn_len, v, me.pos, ret)
                    /\ vn_data' = IF ret.err = "OK" /\ ret.val > 0
                                  THEN vn_write_data(vn_data, me.pos, ret.val,
                                                     MaxByte(vn_data) + 1)
                                  ELSE vn_data
                    /\ thr' = [thr EXCEPT ![t] =
                                 [on EXCEPT !.ret = ret,
                                            !.wrote = IF ret.err = "OK" /\ ret.val > 0
                                                      THEN <<me.pos, ret.val>>
                                                      ELSE <<>>]]
                    /\ UNCHANGED <<km, files>>
               [] step = "pos" ->
                    /\ files' = rw_update_pos(files, h, me.ret)
                    /\ thr' = [thr EXCEPT ![t] = on]
                    /\ UNCHANGED <<km, vn_len, vn_data>>
               [] step = "vunlock" ->
                    /\ km' = [km EXCEPT ![m] = NoThread]
                    /\ thr' = [thr EXCEPT ![t] = [on EXCEPT !.held = {}]]
                    /\ UNCHANGED <<files, vn_len, vn_data>>
               [] step = "fput" ->
                    /\ files' = fput(files, h)
                    /\ thr' = [thr EXCEPT ![t] = on]
                    /\ UNCHANGED <<km, vn_len, vn_data>>
    /\ UNCHANGED <<p_files, vfsvars, s5, vm, ldisc, panicked, last>>

\* Two descriptors of one process: a file open for reading and writing or
\* for appending, and a second handle appending to the same file, reading it
\* or reading a directory
InitRwLk ==
    /\ p_files = [fd \in Fds |-> IF fd < MaxHandles THEN fd + 1 ELSE NULL]
    /\ \E k1 \in {{"FMODE_READ", "FMODE_WRITE"}, {"FMODE_WRITE", "FMODE_APPEND"}},
          k2 \in {[md |-> {"FMODE_WRITE", "FMODE_APPEND"}, vn |-> "reg"],
                  [md |-> {"FMODE_READ"}, vn |-> "reg"],
                  [md |-> {"FMODE_READ"}, vn |-> "dir"]} :
          files = [h \in Handles |->
                     IF h = 1
                     THEN [f_pos |-> 0, f_mode |-> k1, f_vnode |-> "reg",
                           f_refcount |-> 1]
                     ELSE [f_pos |-> 0, f_mode |-> k2.md, f_vnode |-> k2.vn,
                           f_refcount |-> 1]]
    /\ vn_len = [v \in FdVnodes |-> 0]
    /\ vn_data = <<>>
    /\ km = [v \in LkVnodes |-> NoThread]
    /\ thr = [t \in Threads |-> RwIdle]
    /\ IdleVfs /\ IdleS5 /\ IdleVm /\ IdleLdisc
    /\ panicked = FALSE
    /\ last = [op |-> "init", fd |-> 0, arg |-> 0, ret |-> Ok(0)]

NextRwLk == rw_call \/ rw_step

\* Threads of one process reading and writing its open files
SpecRwLk == InitRwLk /\ [][NextRwLk]_vars

-----------------------------------------------------------------------------
(* Initial descriptor tables: what a sequence of opens and dups leaves *)

\* The open modes and vnodes of the two handles: read-write and append-only
\* regular files, a read-only file, a directory opened for reading.
HandleKinds ==
    { [md |-> {"FMODE_READ", "FMODE_WRITE"}, vn |-> "reg"],
      [md |-> {"FMODE_WRITE", "FMODE_APPEND"}, vn |-> "reg"],
      [md |-> {"FMODE_READ"}, vn |-> "dir"] }

InitTable(Kinds) ==
    /\ p_files \in [Fds -> {NULL} \cup Handles]
    /\ \E k \in [Handles -> Kinds] :
          /\ \A h \in Handles : h > 1 => k[h].vn # "dir"
          /\ files = [h \in Handles |->
                        IF RefsTo(p_files, h) = 0 THEN FreeFile
                        ELSE [f_pos |-> 0, f_mode |-> k[h].md, f_vnode |-> k[h].vn,
                              f_refcount |-> RefsTo(p_files, h)]]
    /\ vn_len = [v \in FdVnodes |-> 0]
    /\ IdleVfs /\ IdleS5 /\ IdleLk /\ IdleVm /\ IdleLdisc
    /\ panicked = FALSE
    /\ last = [op |-> "init", fd |-> 0, arg |-> 0, ret |-> Ok(0)]

\* close, dup and dup2 do not look into the handles: read-write files
InitFd == InitTable({[md |-> {"FMODE_READ", "FMODE_WRITE"}, vn |-> "reg"]})

NextFd == do_close \/ do_dup \/ do_dup2

\* The descriptor table under close, dup and dup2
SpecFd == InitFd /\ [][NextFd]_vars

\* Descriptor 0 is open, the last descriptor is free
InitRw ==
    /\ InitTable(HandleKinds)
    /\ p_files[0] = 1
    /\ \A fd \in Fds \ {0} : p_files[fd] \in {NULL, MaxHandles}
    /\ p_files[NFILES - 1] = NULL
    /\ \A h \in Handles : h > 1 => files[h].f_refcount = 0 \/ "FMODE_APPEND" \in files[h].f_mode

NextRw == do_read \/ do_write \/ do_lseek

\* Open files under read, write and lseek
SpecRw == InitRw /\ [][NextRw]_vars

-----------------------------------------------------------------------------
(* The terminal line discipline: drivers/tty/ldisc.c *)

NL == "NL"
BS == "BS"
EOT == "EOT"
ETX == "ETX"

Plain == {"a", "b"}
Keys == Plain \cup {NL, BS, EOT, ETX}

\* the keys pressed in one behaviour
MaxKeys == 5

\* the counts ldisc_read is called with
MaxCount == 3

\* 2^64 modulo n, for n up to 2^15
TwoTo64Mod(n) ==
    LET a == 65536 % n
        b == (a * a) % n
    IN  (b * b) % n

\* `x % LDISC_BUFFER_SIZE` in size_t arithmetic, for x from -1 upwards: -1 is
\* 2^64 - 1
SizeMod(x) ==
    IF x >= 0 THEN x % LDISC_BUFFER_SIZE
    ELSE (x + TwoTo64Mod(LDISC_BUFFER_SIZE) + LDISC_BUFFER_SIZE)
            % LDISC_BUFFER_SIZE

\* ldisc_key_pressed: the line discipline afterwards, and whether
\* sched_wakeup_on was called on the read queue. The writes to the virtual
\* terminal are left out
ldisc_key_pressed_res(l, c) ==
    IF l.ldisc_full = 1 THEN [l |-> l, wake |-> FALSE]
    ELSE IF c = BS
    THEN [l |-> IF l.ldisc_head # l.ldisc_tail
                THEN [l EXCEPT !.ldisc_head = SizeMod(l.ldisc_head - 1)]
                ELSE l,
          wake |-> FALSE]
    ELSE IF c = EOT
    THEN [l |-> [l EXCEPT !.ldisc_buffer[l.ldisc_head] = c,
                          !.ldisc_head = SizeMod(l.ldisc_head + 1),
                          !.ldisc_full = 1,
                          !.ldisc_cooked = l.ldisc_tail],
          wake |-> TRUE]
    ELSE IF c = ETX
    THEN [l |-> [l EXCEPT !.ldisc_head = l.ldisc_tail], wake |-> FALSE]
    ELSE IF c = NL
    THEN [l |-> [l EXCEPT !.ldisc_buffer[l.ldisc_head] = c,
                          !.ldisc_head = SizeMod(l.ldisc_head + 1),
                          !.ldisc_cooked = l.ldisc_tail],
          wake |-> TRUE]
    ELSE IF l.ldisc_head = SizeMod(l.ldisc_tail - 1)
    THEN [l |-> l, wake |-> FALSE]
    ELSE [l |-> [l EXCEPT !.ldisc_buffer[l.ldisc_head] = c,
                          !.ldisc_head = SizeMod(l.ldisc_head + 1)],
          wake |-> FALSE]

\* the loop of ldisc_read: buf is what was copied so far
RECURSIVE ldisc_read_loop(_, _, _)
ldisc_read_loop(l, buf, count) ==
    IF /\ Len(buf) < count
       /\ l.ldisc_cooked # l.ldisc_tail
       /\ l.ldisc_buffer[l.ldisc_cooked] \notin {NL, EOT}
    THEN ldisc_read_loop(
             [l EXCEPT !.ldisc_cooked = SizeMod(l.ldisc_cooked + 1)],
             Append(buf, l.ldisc_buffer[l.ldisc_cooked]), count)
    ELSE [l |-> l, ret |-> Len(buf), buf |-> buf]

ldisc_read_res(l, count) == ldisc_read_loop(l, <<>>, count)

\* the loop of ldisc_get_current_line_raw, and its `return 0`
RECURSIVE ldisc_get_current_line_raw_loop(_, _)
ldisc_get_current_line_raw_loop(l, str) ==
    IF l.ldisc_tail # l.ldisc_head
    THEN ldisc_get_current_line_raw_loop(
             [l EXCEPT !.ldisc_tail = SizeMod(l.ldisc_tail + 1)],
             Append(str, l.ldisc_buffer[l.ldisc_tail]))
    ELSE [l |-> l, ret |-> 0, buf |-> str]

ldisc_get_current_line_raw_res(l) == ldisc_get_current_line_raw_loop(l, <<>>)

\* the condition of the loop of ldisc_wait_read
ldisc_wait_read_cond(l) == l.ldisc_cooked = l.ldisc_tail /\ l.ldisc_full = 0

\* the one thread that reads the terminal
Reader == 1

\* a thread in ldisc_wait_read: at the loop test, asleep on the read queue, or
\* returned. `slept` tells that `ret` has been assigned
LdThread(pc, ret, slept) == [pc |-> pc, ret |-> ret, slept |-> slept]

\* what a `long ret` that was never assigned can hold
Unassigned == {Ok(0), Ok(1), Err("EINTR")}

ldisc_line(l, line) == [l EXCEPT !.line = line]

ldisc_wait_read_call ==
    /\ thr[Reader].pc \in {"idle", "returned"}
    /\ thr' = [thr EXCEPT ![Reader] = LdThread("test", Ok(0), FALSE)]
    /\ last' = [op |-> "call", ret |-> Ok(0), buf |-> <<>>, c |-> NUL, count |-> 0]
    /\ UNCHANGED <<ldisc, fdvars, vfsvars, s5, vm, km, vn_data, panicked>>

\* one turn of the loop of ldisc_wait_read, under the lock of the terminal:
\* sleep on the read queue, or return
ldisc_wait_read_test ==
    /\ thr[Reader].pc = "test"
    /\ IF ldisc_wait_read_cond(ldisc)
       THEN /\ thr' = [thr EXCEPT ![Reader].pc = "sleeping"]
            /\ ldisc' = [ldisc EXCEPT !.ldisc_read_queue = Append(@, Reader)]
            /\ last' = [op |-> "sleep", ret |-> Ok(0), buf |-> <<>>, c |-> NUL,
                        count |-> 0]
       ELSE \E ret \in IF thr[Reader].slept THEN {thr[Reader].ret}
                       ELSE Unassigned :
               /\ thr' = [thr EXCEPT ![Reader] =
                             LdThread("returned", ret, thr[Reader].slept)]
               /\ last' = [op |-> "ldisc_wait_read", ret |-> ret, buf |-> <<>>,
                           c |-> NUL, count |-> 0]
               /\ UNCHANGED ldisc
    /\ UNCHANGED <<fdvars, vfsvars, s5, vm, km, vn_data, panicked>>

\* sched_cancellable_sleep_on returns -EINTR: the sleep was cancelled
ldisc_wait_read_cancelled ==
    /\ thr[Reader].pc = "sleeping"
    /\ thr' = [thr EXCEPT ![Reader] = LdThread("returned", Err("EINTR"), TRUE)]
    /\ ldisc' = [ldisc EXCEPT !.ldisc_read_queue = <<>>]
    /\ last' = [op |-> "ldisc_wait_read", ret |-> Err("EINTR"), buf |-> <<>>,
                c |-> NUL, count |-> 0]
    /\ UNCHANGED <<fdvars, vfsvars, s5, vm, km, vn_data, panicked>>

\* the key handler. sched_wakeup_on takes the sleeping thread off the queue;
\* its sched_cancellable_sleep_on returns 0 and it is at the loop test again
ldisc_key_pressed ==
    /\ ldisc.nkeys < MaxKeys
    /\ \E c \in Keys :
          \E r \in {ldisc_key_pressed_res(ldisc, c)} :
             LET woken == r.wake /\ thr[Reader].pc = "sleeping"
                 old == ldisc.line
                 line == IF ~old.clean \/ old.nl THEN NoLine
                         ELSE IF c \in Plain
                                 /\ Len(old.chars) + 1 < LDISC_BUFFER_SIZE
                         THEN [old EXCEPT !.chars = Append(@, c)]
                         ELSE IF c = NL
                         THEN [old EXCEPT !.nl = TRUE,
                                          !.blocked = thr[Reader].pc = "sleeping"]
                         ELSE NoLine
             IN  /\ ldisc' = [r.l EXCEPT !.nkeys = @ + 1, !.line = line,
                                         !.ldisc_read_queue =
                                             IF woken THEN <<>> ELSE @]
                 /\ thr' = IF woken
                           THEN [thr EXCEPT ![Reader] = LdThread("test", Ok(0), TRUE)]
                           ELSE thr
                 /\ last' = [op |-> "ldisc_key_pressed", ret |-> Ok(0),
                             buf |-> <<>>, c |-> c, count |-> 0]
    /\ UNCHANGED <<fdvars, vfsvars, s5, vm, km, vn_data, panicked>>

ldisc_read ==
    /\ thr[Reader].pc \in {"idle", "returned"}
    /\ \E count \in 0 .. MaxCount :
          \E r \in {ldisc_read_res(ldisc, count)} :
             /\ ldisc' = ldisc_line(r.l, NoLine)
             /\ last' = [op |-> "ldisc_read", ret |-> Ok(r.ret), buf |-> r.buf,
                         c |-> NUL, count |-> count]
    /\ UNCHANGED <<thr, fdvars, vfsvars, s5, vm, km, vn_data, panicked>>

ldisc_get_current_line_raw ==
    /\ \E r \in {ldisc_get_current_line_raw_res(ldisc)} :
          /\ ldisc' = ldisc_line(r.l, NoLine)
          /\ last' = [op |-> "ldisc_get_current_line_raw", ret |-> Ok(r.ret),
                      buf |-> r.buf, c |-> NUL, count |-> 0]
    /\ UNCHANGED <<thr, fdvars, vfsvars, s5, vm, km, vn_data, panicked>>

InitLdisc ==
    /\ IdleFd /\ IdleVfs /\ IdleS5 /\ IdleVm /\ IdleLdisc
    /\ km = [m \in {} |-> NoThread]
    /\ thr = <<LdThread("idle", Ok(0), FALSE)>>
    /\ vn_data = <<>>
    /\ panicked = FALSE
    /\ last = [op |-> "idle", ret |-> Ok(0), buf |-> <<>>, c |-> NUL, count |-> 0]

NextLdisc ==
    \/ ldisc_wait_read_call \/ ldisc_wait_read_test \/ ldisc_wait_read_cancelled
    \/ ldisc_key_pressed \/ ldisc_read \/ ldisc_get_current_line_raw

\* The line discipline under key presses, with one thread reading
SpecLdisc == InitLdisc /\ [][NextLdisc]_vars

\* The same with the scheduler running a runnable reader: a thread at the loop
\* test of ldisc_wait_read takes its turn
SpecLdiscFair == SpecLdisc /\ WF_vars(ldisc_wait_read_test)

-----------------------------------------------------------------------------
(* Properties of the descriptor-table system calls *)

IsOpen(pf, fd) == fd \in Fds /\ pf[fd] # NULL

\* C1: after do_read or do_write returns a byte count n > 0, f_pos has
\* advanced by exactly n from the position at which the vnode operation was
\* invoked (the end of file for an append-mode write).
C1_PositionAdvanced ==
    [][ (last'.op \in {"do_read", "do_write"} /\ last'.ret.err = "OK"
            /\ last'.ret.val > 0)
        => LET h == p_files[last'.fd]
               pos0 == IF last'.op = "do_write" /\ "FMODE_APPEND" \in files[h].f_mode
                       THEN vn_len[files[h].f_vnode]
                       ELSE files[h].f_pos
           IN  files'[h].f_pos = pos0 + last'.ret.val ]_vars

\* the position the claim of do_lseek asks for
SeekTarget(h, offset, whence) ==
    CASE whence = "SEEK_SET" -> offset
      [] whence = "SEEK_CUR" -> files[h].f_pos + offset
      [] whence = "SEEK_END" -> vn_len[files[h].f_vnode] + offset

\* C2: do_lseek stores and returns the new position, returns EINVAL leaving
\* f_pos alone for a bad whence or a negative result, EBADF for a descriptor
\* that is not open; the reference fget took is released exactly once and
\* the handle is not accessed after that release.
C2_Lseek ==
    [][ last'.op = "do_lseek"
        => LET fd == last'.fd
               h == IF fd \in Fds THEN p_files[fd] ELSE NULL
           IN  IF h = NULL
               THEN last'.ret = Err("EBADF") /\ files' = files
               ELSE /\ files'[h].f_refcount = files[h].f_refcount
                    /\ ~last'.uar
                    /\ IF last'.whence \notin Whences
                          \/ SeekTarget(h, last'.arg, last'.whence) < 0
                       THEN last'.ret = Err("EINVAL") /\ files' = files
                       ELSE /\ files'[h].f_pos = SeekTarget(h, last'.arg, last'.whence)
                            /\ last'.ret = Ok(SeekTarget(h, last'.arg, last'.whence)) ]_vars

\* C3: do_dup on an open descriptor returns the lowest descriptor that was
\* free and makes it refer to the file handle of fd (one file_t, so one
\* position), leaving fd open; on a descriptor that is out of range or not open
\* it returns EBADF and changes nothing.
C3_Dup ==
    [][ last'.op = "do_dup"
        => LET fd == last'.fd IN
           IF IsOpen(p_files, fd)
           THEN (\E n \in Fds : p_files[n] = NULL)
                => LET n == last'.ret.val IN
                   /\ last'.ret.err = "OK"
                   /\ n \in Fds /\ p_files[n] = NULL
                   /\ \A j \in Fds : j < n => p_files[j] # NULL
                   /\ p_files'[n] = p_files[fd]
                   /\ \A j \in Fds \ {n} : p_files'[j] = p_files[j]
                   /\ files'[p_files'[n]].f_pos = files[p_files[fd]].f_pos
           ELSE last'.ret = Err("EBADF") /\ p_files' = p_files /\ files' = files ]_vars

\* a dup that succeeded: two descriptors, one handle
C3_Witness ==
    /\ last.op = "do_dup" /\ last.ret.err = "OK"
    /\ last.ret.val # last.fd
    /\ p_files[last.fd] # NULL
    /\ p_files[last.ret.val] = p_files[last.fd]

Count(b) == IF b THEN 1 ELSE 0

\* C4: do_dup2 returns EBADF without touching the table when ofd or nfd is out
\* of range or ofd is not open; changes nothing when ofd = nfd; otherwise nfd
\* is closed if it was open (its handle loses one reference), refers to the
\* handle of ofd (which gains one reference), and nfd is returned.
C4_Dup2 ==
    [][ last'.op = "do_dup2"
        => LET ofd == last'.fd
               nfd == last'.arg
           IN  IF ofd \notin Fds \/ nfd \notin Fds \/ ~IsOpen(p_files, ofd)
               THEN last'.ret = Err("EBADF") /\ p_files' = p_files /\ files' = files
               ELSE IF ofd = nfd
               THEN last'.ret = Ok(nfd) /\ UNCHANGED <<p_files, files, vn_len, panicked>>
               ELSE /\ last'.ret = Ok(nfd)
                    /\ p_files' = [p_files EXCEPT ![nfd] = p_files[ofd]]
                    /\ \A h \in Handles :
                          files'[h].f_refcount =
                              files[h].f_refcount - Count(p_files[nfd] = h)
                                                  + Count(p_files[ofd] = h) ]_vars

\* a dup2 onto another descriptor
C4_Witness ==
    /\ last.op = "do_dup2" /\ last.ret = Ok(last.arg)
    /\ last.fd # last.arg
    /\ p_files[last.arg] # NULL
    /\ p_files[last.arg] = p_files[last.fd]

\* C5: between system calls every handle's reference count is the number of
\* descriptors that point to it, failed calls included.
C5_RefcountIsSlots ==
    \A h \in Handles : files[h].f_refcount = RefsTo(p_files, h)

-----------------------------------------------------------------------------
(* Properties of path resolution, stated against the directory tree *)

\* the components of a path: its maximal runs of characters other than '/'
RECURSIVE Comps(_)
Comps(path) ==
    IF path = <<>> THEN <<>>
    ELSE IF Head(path) = "/" THEN Comps(Tail(path))
    ELSE LET n == CHOOSE i \in 1 .. Len(path) :
                      /\ \A j \in 1 .. i : path[j] # "/"
                      /\ (i = Len(path) \/ path[i + 1] = "/")
         IN  <<SubSeq(path, 1, n)>> \o Comps(SubSeq(path, n + 1, Len(path)))

AllButLast(cs) == IF cs = <<>> THEN cs ELSE SubSeq(cs, 1, Len(cs) - 1)

\* the directory whose entry (other than "." and "..") names v
ParentOf(v) ==
    IF v = ROOT THEN ROOT
    ELSE CHOOSE d \in Vnodes :
            \E e \in vfs.vnodes[d].ents : e.ino = v /\ e.name \notin {Dot, DotDot}

\* one step from vnode v along component c in the current tree
TreeStep(v, c) ==
    IF ~S_ISDIR(vfs.vnodes[v].mode) THEN [err |-> "ENOTDIR", v |-> NULL]
    ELSE IF c = Dot THEN [err |-> "OK", v |-> v]
    ELSE IF c = DotDot THEN [err |-> "OK", v |-> ParentOf(v)]
    ELSE IF \E e \in vfs.vnodes[v].ents : e.name = c
    THEN [err |-> "OK",
          v |-> (CHOOSE e \in vfs.vnodes[v].ents : e.name = c).ino]
    ELSE [err |-> "ENOENT", v |-> NULL]

RECURSIVE TreeWalk(_, _)
TreeWalk(v, cs) ==
    IF cs = <<>> THEN [err |-> "OK", v |-> v]
    ELSE LET s == TreeStep(v, Head(cs)) IN
         IF s.err # "OK" THEN s ELSE TreeWalk(s.v, Tail(cs))

StartOf(path) == IF path # <<>> /\ path[1] = "/" THEN ROOT ELSE p_cwd
\* where the components before the last lead
ParentWalk(path) == TreeWalk(StartOf(path), AllButLast(Comps(path)))
LastComp(path) == Comps(path)[Len(Comps(path))]

OpenFailedClean == last'.res = NULL /\ vfs' = vfs

-----------------------------------------------------------------------------
(* Properties of S5FS directories *)

\* C10: mkdir of a new name, an inode being free, makes a directory with link
\* count 2 that holds "." naming itself and ".." naming its parent, is named
\* by exactly one new entry of the parent, and raises the parent's link
\* count by 1.
C10_MkdirMakesDirectory ==
    [][ ( /\ last'.op = "s5fs_mkdir"
          /\ s5.s5s_free_inode # NoInode
          /\ \A e \in s5.inodes[last'.ino].ents : e.name # last'.name )
        => LET dir == last'.ino
               child == last'.ret.val
           IN  /\ ~panicked'
               /\ last'.ret.err = "OK"
               /\ s5'.inodes[child].s5_type = "S5_TYPE_DIR"
               /\ s5'.inodes[child].s5_linkcount = 2
               /\ s5'.inodes[child].ents =
                      {[name |-> Dot, ino |-> child], [name |-> DotDot, ino |-> dir]}
               /\ s5'.inodes[dir].ents =
                      s5.inodes[dir].ents \cup {[name |-> last'.name, ino |-> child]}
               /\ s5'.inodes[dir].s5_linkcount = s5.inodes[dir].s5_linkcount + 1 ]_vars

\* the inodes on the free inode list, in order, cut where the list closes
\* on itself
RECURSIVE FreeInodeList(_, _, _)
FreeInodeList(s, ino, seen) ==
    IF ino = NoInode \/ ino \in seen THEN <<>>
    ELSE <<ino>> \o FreeInodeList(s, s.inodes[ino].s5_un, seen \cup {ino})

\* the free inode list ends, and holds free inodes only
FreeInodeListSound(s) ==
    LET l == FreeInodeList(s, s.s5s_free_inode, {}) IN
    /\ \A i \in 1 .. Len(l) : s.inodes[l[i]].s5_type = "S5_TYPE_FREE"
    /\ (l = <<>> /\ s.s5s_free_inode = NoInode)
       \/ (l # <<>> /\ s.inodes[l[Len(l)]].s5_un = NoInode)

\* C11: when s5fs_mkdir fails (no free inode, or a failed s5_link) it
\* returns the error with the file system as before the call: entries and
\* link counts undone, the allocated inode back on the free inode list once,
\* the list acyclic, and no assertion failed on the way.
C11_MkdirFailsClean ==
    [][ (last'.op = "s5fs_mkdir" /\ last'.ret.err # "OK")
        => /\ ~panicked'
           /\ FreeInodeListSound(s5')
           /\ s5' = s5 ]_vars

\* the inode the entry called name of directory dir names, NoInode if none
S5Entry(s, dir, name) ==
    LET hits == {e \in s.inodes[dir].ents : e.name = name} IN
    IF hits = {} THEN NoInode ELSE (CHOOSE e \in hits : TRUE).ino

\* C12: rmdir of a name that refers to a directory holding entries besides
\* "." and ".." returns ENOTEMPTY and changes nothing; of a name that is no
\* directory, ENOTDIR; of an empty directory it removes the name from the
\* parent and "." and ".." from the child, the child's link count falling
\* by 2 and the parent's by 1.
C12_Rmdir ==
    [][ ( /\ last'.op = "s5fs_rmdir"
          /\ last'.name \notin {Dot, DotDot}
          /\ S5Entry(s5, last'.ino, last'.name) # NoInode )
        => LET parent == last'.ino
               child == S5Entry(s5, parent, last'.name)
               c == s5.inodes[child]
           IN  /\ ~panicked'
               /\ IF c.s5_type # "S5_TYPE_DIR"
                  THEN last'.ret.err = "ENOTDIR" /\ s5' = s5
                  ELSE IF c.s5_un > 2
                  THEN last'.ret.err = "ENOTEMPTY" /\ s5' = s5
                  ELSE /\ last'.ret.err = "OK"
                       /\ s5'.inodes[parent].ents =
                              s5.inodes[parent].ents \ {[name |-> last'.name, ino |-> child]}
                       /\ s5'.inodes[child].ents = {}
                       /\ s5'.inodes[child].s5_linkcount = c.s5_linkcount - 2
                       /\ s5'.inodes[parent].s5_linkcount =
                              s5.inodes[parent].s5_linkcount - 1 ]_vars

\* C13: do_rmdir returns EINVAL for every path whose final component is "."
\* and ENOTEMPTY for every path whose final component is "..", with or
\* without separators after it, without calling the file system and with
\* nothing retained; ENOTDIR if the parent is no directory, ENAMETOOLONG if
\* the final component is too long.
C13_RmdirDots ==
    [][ ( /\ last'.op = "do_rmdir"
          /\ Comps(last'.path) # <<>>
          /\ ParentWalk(last'.path).err = "OK" )
        => LET name == LastComp(last'.path)
               parent == ParentWalk(last'.path).v
               refused == last'.call = NoCall /\ vfs' = vfs
           IN  IF name = Dot THEN last'.err = "EINVAL" /\ refused
               ELSE IF name = DotDot THEN last'.err = "ENOTEMPTY" /\ refused
               ELSE IF ~S_ISDIR(vfs.vnodes[parent].mode)
               THEN last'.err = "ENOTDIR" /\ refused
               ELSE Len(name) > NAME_LEN
                    => last'.err = "ENAMETOOLONG" /\ refused ]_vars

\* t waits for a mutex that u holds
LkWaits(t, u) ==
    thr[t].pc = "locking" /\ km[Head(thr[t].todo)] = u

\* some threads each wait for a mutex held by one of them
Deadlocked ==
    \E T \in SUBSET Threads \ {{}} : \A t \in T : \E u \in T : LkWaits(t, u)

\* C14: no set of threads running do_link, do_rename, do_unlink, do_rmdir and
\* do_mkdir deadlocks on vnode mutexes: no cycle of threads each waiting
\* for a mutex held by the next is reachable.
C14_NoDeadlock == ~Deadlocked

\* C15: rename of a non-directory. A newname that does not exist is created
\* for the old inode and oldname removed, the link count of the inode as
\* before; a newname naming another non-directory is replaced, that inode
\* losing a link; a newname naming the same inode changes nothing and 0 is
\* returned; a newname naming a directory gives EISDIR and an oldname that
\* does not exist ENOENT, both changing nothing.
C15_Rename ==
    [][ last'.op = "s5fs_rename"
        => LET olddir == last'.ino
               newdir == last'.newdir
               old == S5Entry(s5, olddir, last'.name)
               new == S5Entry(s5, newdir, last'.newname)
           IN  /\ ~panicked'
               /\ IF old = NoInode THEN last'.ret.err = "ENOENT" /\ s5' = s5
                  ELSE IF new = old THEN last'.ret = Ok(0) /\ s5' = s5
                  ELSE IF new # NoInode /\ s5.inodes[new].s5_type = "S5_TYPE_DIR"
                  THEN last'.ret.err = "EISDIR" /\ s5' = s5
                  ELSE /\ last'.ret = Ok(0)
                       /\ S5Entry(s5', newdir, last'.newname) = old
                       /\ S5Entry(s5', olddir, last'.name) =
                              IF olddir = newdir /\ last'.name = last'.newname
                              THEN old ELSE NoInode
                       /\ s5'.inodes[old].s5_linkcount = s5.inodes[old].s5_linkcount
                       /\ new # NoInode =>
                              s5'.inodes[new].s5_linkcount = s5.inodes[new].s5_linkcount - 1 ]_vars

\* C16: every return of namev_open, do_mknod, do_mkdir, do_rmdir and
\* do_rename, with success or an error, leaves no vnode mutex held and has
\* released every reference the call obtained and none it did not obtain:
\* the reference counts are as before, but for the vnode namev_open returns.
C16_ReturnsBalanced ==
    [][ ( /\ last'.op \in {"namev_open", "do_mknod", "do_mkdir", "do_rmdir", "do_rename"}
          /\ \A v \in Vnodes : ~vfs.vn_mutex[v] )
        => /\ ~vfs'.bad
           /\ \A v \in Vnodes : ~vfs'.vn_mutex[v]
           /\ \A v \in Vnodes :
                 vfs'.vn_refcount[v] =
                    IF last'.op = "namev_open" /\ last'.err = "OK" /\ last'.res = v
                    THEN vfs.vn_refcount[v] + 1 ELSE vfs.vn_refcount[v] ]_vars

C18_WriteThenRead ==
    [][ last'.op = "s5_read_file"
        => /\ last'.pos >= s5.inodes[last'.ino].s5_un => last'.ret = Ok(0)
           /\ ( /\ last.op = "s5_write_file" /\ last.ret = Ok(last.len)
                /\ last.ino = last'.ino /\ last.pos = last'.pos /\ last.len = last'.len )
              => /\ last'.ret = Ok(last.len) /\ last'.buf = last.buf
                 /\ s5.inodes[last'.ino].s5_un >= last.pos + last.len ]_vars

\* the entries of the directories reached from the root that name inode i
S5EntriesTo(s, i) ==
    Cardinality({de \in S5Reachable(s) \X S5Names :
                   [name |-> de[2], ino |-> i] \in s.inodes[de[1]].ents})

RECURSIVE S5FreeChain(_, _, _)
S5FreeChain(s, b, seen) ==
    IF b \notin Blocks \/ b \in seen \/ Len(s.blk[b]) # S5_NBLKS_PER_FNODE THEN <<>>
    ELSE <<b>> \o SubSeq(s.blk[b], 1, S5_NBLKS_PER_FNODE - 1)
         \o S5FreeChain(s, s.blk[b][S5_NBLKS_PER_FNODE], seen \cup {b})

S5FreeBlocks(s) ==
    SubSeq(s.s5s_free_blocks, 1, s.s5s_nfree)
    \o S5FreeChain(s, s.s5s_free_blocks[S5_NBLKS_PER_FNODE], {})

\* the inode as the file system has it: the cached copy of a live vnode
S5Inode(s, i) == IF i = InoF /\ s.node.live THEN s.node.inode ELSE s.inodes[i]

\* the block pointers of inode i, direct and through the indirect block
S5BlocksOf(s, i) ==
    LET inode == S5Inode(s, i) IN
    IF inode.s5_type \notin {"S5_TYPE_DATA", "S5_TYPE_DIR"} THEN <<>>
    ELSE SelectSeq(inode.s5_direct_blocks, LAMBDA b : b # 0)
         \o (IF inode.s5_indirect_block = 0 THEN <<>>
             ELSE <<inode.s5_indirect_block>>
                  \o SelectSeq(s.blk[inode.s5_indirect_block], LAMBDA b : b # 0))

RECURSIVE S5BlocksFrom(_, _)
S5BlocksFrom(s, i) ==
    IF i \notin Inos THEN <<>> ELSE S5BlocksOf(s, i) \o S5BlocksFrom(s, i + 1)

\* C20: no block number is twice among the free block list and the direct
\* and indirect block pointers of the inodes in use, and every block on the
\* free list is non-zero and below the number of blocks.
C20_BlocksOnce ==
    LET free == S5FreeBlocks(s5)
        all == free \o S5BlocksFrom(s5, 0)
    IN  /\ \A j, k \in 1 .. Len(all) : all[j] = all[k] => j = k
        /\ \A j \in 1 .. Len(free) : free[j] # 0 /\ free[j] \in Blocks

-----------------------------------------------------------------------------
(* Properties of the address space *)

\* C21: after any sequence of vmmap_insert (of a non-empty area that overlaps
\* none), vmmap_map, vmmap_remove and vmmap_clone, the areas are strictly
\* sorted by start page, pairwise disjoint as half-open ranges, each has
\* end > start and each has a memory object.
C21_AreasSorted ==
    /\ \A i \in 1 .. Len(vm.areas) :
          /\ vm.areas[i].vma_start < vm.areas[i].vma_end
          /\ vm.areas[i].vma_obj # NULL
    /\ \A i, j \in 1 .. Len(vm.areas) :
          i < j => /\ vm.areas[i].vma_start < vm.areas[j].vma_start
                   /\ vm.areas[i].vma_end <= vm.areas[j].vma_start

\* an area was inserted between two others
C21_Witness ==
    /\ last.op = "vmmap_insert"
    /\ Len(vm.areas) = 3
    /\ vm.areas[2].vma_start = last.a

\* the start pages at which npages pages lie inside the user range and
\* overlap no area
VmFits(list, npages) ==
    {r \in LowPn .. HighPn :
        /\ r + npages <= HighPn
        /\ \A i \in 1 .. Len(list) :
              ~Overlap(r, r + npages, list[i].vma_start, list[i].vma_end)}

\* C22: vmmap_find_range leaves the map alone and returns the highest
\* (VMMAP_DIR_HILO) or lowest (VMMAP_DIR_LOHI) start page r with
\* [r, r + npages) inside the user range and overlapping no area, and -1
\* exactly when there is no such page.
C22_FindRange ==
    [][ last'.op = "vmmap_find_range"
        => LET fits == VmFits(vm.areas, last'.a) IN
           /\ vm' = vm
           /\ IF fits = {} THEN last'.ret = -1
              ELSE /\ last'.ret \in fits
                   /\ \A r \in fits : IF last'.b = "VMMAP_DIR_HILO"
                                       THEN r <= last'.ret ELSE r >= last'.ret ]_vars

\* C23: vmmap_lookup returns the area with start <= vfn < end when there is
\* one, and NULL when no area contains vfn.
C23_Lookup ==
    [][ last'.op = "vmmap_lookup"
        => LET vfn == last'.a
               hits == {i \in 1 .. Len(vm.areas) :
                           vm.areas[i].vma_start <= vfn /\ vfn < vm.areas[i].vma_end}
           IN  IF hits = {} THEN last'.ret = NULL ELSE last'.ret \in hits ]_vars

\* the areas of the list that name object o and are (shared = TRUE) or are
\* not share-mapped
VmAreasOn(list, o, shared) ==
    Cardinality({i \in 1 .. Len(list) :
                    /\ list[i].vma_obj = o
                    /\ ("MAP_SHARED" \in list[i].vma_flags) = shared})

\* C24: a vmmap_clone in which no allocation fails returns a new map with the
\* areas of the source in the same order, each with the same start, end,
\* offset, protection and flags; a shared area names the same object in both
\* maps, with one reference more; for a private area parent and child name
\* two different new shadow objects over the object the parent named, which
\* keeps one reference for each of the two shadows in place of the parent's.
C24_Clone ==
    [][ last'.op = "vmmap_clone" /\ last'.a = 0
        => /\ last'.ret.err = "OK"
           /\ LET new == last'.ret.val
                  old == vm.areas
                  N == Len(vm.mo)
              IN  /\ Len(new) = Len(old)
                  /\ Len(vm'.areas) = Len(old)
                  /\ \A i \in 1 .. Len(old) :
                        /\ [new[i] EXCEPT !.vma_obj = NULL]
                              = [old[i] EXCEPT !.vma_obj = NULL]
                        /\ [vm'.areas[i] EXCEPT !.vma_obj = NULL]
                              = [old[i] EXCEPT !.vma_obj = NULL]
                        /\ IF "MAP_SHARED" \in old[i].vma_flags
                           THEN /\ new[i].vma_obj = old[i].vma_obj
                                /\ vm'.areas[i].vma_obj = old[i].vma_obj
                           ELSE /\ new[i].vma_obj > N
                                /\ vm'.areas[i].vma_obj > N
                                /\ new[i].vma_obj # vm'.areas[i].vma_obj
                                /\ vm'.mo[new[i].vma_obj].shadowed = old[i].vma_obj
                                /\ vm'.mo[vm'.areas[i].vma_obj].shadowed
                                      = old[i].vma_obj
                  /\ \A o \in 1 .. N :
                        vm'.mo[o].mo_refcount
                          = vm.mo[o].mo_refcount + VmAreasOn(old, o, TRUE)
                            + VmAreasOn(old, o, FALSE) ]_vars

C26_Map ==
    [][ last'.op = "vmmap_map" /\ ~panicked'
        => IF last'.ret.err = "OK"
           THEN LET lo == IF last'.lopage # 0 THEN last'.lopage
                          ELSE vmmap_find_range_res(vm.areas, last'.npages, last'.dir)
                    made == {i \in 1 .. Len(vm'.areas) :
                                /\ vm'.areas[i].vma_start = lo
                                /\ vm'.areas[i].vma_end = lo + last'.npages
                                /\ vm'.areas[i].vma_flags = last'.flags
                                /\ vm'.areas[i].vma_obj # NULL}
                IN  /\ Cardinality(made) = 1
                    /\ "MAP_FIXED" \in last'.flags
                         => \A i \in 1 .. Len(vm'.areas) :
                               i \in made \/ ~Overlap(lo, lo + last'.npages,
                                                     vm'.areas[i].vma_start,
                                                     vm'.areas[i].vma_end)
           ELSE vm' = vm ]_vars

\* the object and the page of it that page p of the list is mapped to
VmPage(list, p) ==
    {<<list[i].vma_obj, list[i].vma_off + (p - list[i].vma_start)>> :
        i \in {j \in 1 .. Len(list) :
                  list[j].vma_start <= p /\ p < list[j].vma_end}}

\* C27: vmmap_remove(map, lopage, npages), which can fail only when a split
\* finds no memory, returns 0; afterwards no area overlaps
\* [lopage, lopage + npages) and every other page is mapped to the same
\* object at the same object page as before.
C27_Remove ==
    [][ last'.op = "vmmap_remove"
        => /\ last'.ret = Ok(0)
           /\ \A p \in LowPn .. (HighPn - 1) :
                 IF last'.a <= p /\ p < last'.a + last'.b
                 THEN VmPage(vm'.areas, p) = {}
                 ELSE VmPage(vm'.areas, p) = VmPage(vm.areas, p) ]_vars

\* C28: do_munmap returns EINVAL and leaves the address space alone when addr
\* is not page-aligned, len is 0 or part of [addr, addr + len) is outside the
\* user address space; otherwise it calls vmmap_remove on a page range that
\* covers every page meeting [addr, addr + len) and returns what that returns.
C28_Munmap ==
    [][ last'.op = "do_munmap"
        => LET addr == last'.a
               len == last'.b
               call == last'.c
           IN  IF \/ addr % PAGE_SIZE # 0
                  \/ len = 0
                  \/ addr < USER_MEM_LOW
                  \/ addr + len > USER_MEM_HIGH
               THEN last'.ret = Err("EINVAL") /\ call = <<>> /\ vm' = vm
               ELSE /\ call # <<>>
                    /\ call[1] <= addr \div PAGE_SIZE
                    /\ call[1] + call[2] >= (addr + len + PAGE_SIZE - 1) \div PAGE_SIZE
                    /\ last'.ret = vmmap_remove_res(vm, call[1], call[2]).ret ]_vars

-----------------------------------------------------------------------------
(* Properties of threads reading and writing *)

\* the statements a thread executes with the vnode mutex held
RwLocked == {"append", "op_call", "op_return", "pos", "vunlock"}

RwIn(t, steps) == thr[t].pc = "running" /\ Head(thr[t].todo) \in steps

RwVnode(t) == files[thr[t].h].f_vnode

RwAppends(t) ==
    /\ thr[t].op = "do_write" /\ thr[t].wrote # <<>>
    /\ "FMODE_APPEND" \in files[thr[t].h].f_mode

-----------------------------------------------------------------------------
(* Properties of the locks taken by namev_dir *)

\* the vnodes whose mutex is held
NdHeld(k) == {v \in DOMAIN k.vn_mutex : k.vn_mutex[v]}

-----------------------------------------------------------------------------
(* Properties of the S5FS vnode operations and of the free lists *)

\* C31: a lookup of a name that the directory holds succeeds, returns the
\* vnode of the entry's inode and adds exactly one reference to it, also when
\* the name is "." and the vnode is the directory itself
C31_LookupOneRef ==
    [][last'.op = "s5fs_lookup"
       => \A e \in s5.inodes[last'.ino].ents :
             e.name = last'.name
             => /\ last'.ret = Ok(0)
                /\ last'.res = e.ino
                /\ last'.refs = 1]_vars

\* the inodes on the free list, from the head h, at most n of them
RECURSIVE FreeInodes(_, _, _)
FreeInodes(s, h, n) ==
    IF h = NoInode \/ h \notin Inos \/ n = 0 THEN <<>>
    ELSE <<h>> \o FreeInodes(s, s.inodes[h].s5_un, n - 1)

\* the list ends, holds no inode twice, and every inode on it is free
FreeInodesOk(s) ==
    LET l == FreeInodes(s, s.s5s_free_inode, MaxInodes + 1) IN
    /\ Len(l) <= MaxInodes
    /\ \A i, j \in 1 .. Len(l) : i # j => l[i] # l[j]
    /\ \A i \in 1 .. Len(l) : s.inodes[l[i]].s5_type = "S5_TYPE_FREE"

\* C32: s5_alloc_inode takes the inode at the head of the free list, the
\* head becoming its next-free link, and returns it with size 0, link count
\* 0, the type asked for, no direct blocks and the indirect field 0 (devid
\* for a device); it returns ENOSPC, changing nothing, exactly when the head
\* is -1. s5_free_inode marks the inode free and pushes it at the head, so
\* freeing the inode just allocated restores the head. No inode is in use
\* and on the list, or on it twice.
C32_InodeList ==
    /\ []FreeInodesOk(s5)
    /\ [][/\ last'.op = "s5_alloc_inode" /\ ~panicked'
             => LET h == s5.s5s_free_inode IN
                IF h = NoInode
                THEN last'.ret = Err("ENOSPC") /\ s5' = s5
                ELSE /\ last'.ret = Ok(h)
                     /\ s5'.s5s_free_inode = s5.inodes[h].s5_un
                     /\ s5'.inodes[h] =
                          [s5_type |-> last'.type, s5_linkcount |-> 0, s5_un |-> 0,
                           ents |-> s5.inodes[h].ents,
                           s5_direct_blocks |-> Zeros(S5_NDIRECT_BLOCKS),
                           s5_indirect_block |->
                               IF last'.type \in {"S5_TYPE_CHR", "S5_TYPE_BLK"}
                               THEN last'.devid ELSE 0]
                     /\ \A i \in Inos \ {h} : s5'.inodes[i] = s5.inodes[i]
                     /\ s5_free_inode_res(s5', h).s5.s5s_free_inode = h
                     /\ s5_free_inode_res(s5', h).s5.inodes[h].s5_un
                          = s5.inodes[h].s5_un
          /\ last'.op = "s5_free_inode" /\ ~panicked'
             => /\ s5'.s5s_free_inode = last'.ino
                /\ s5'.inodes[last'.ino].s5_type = "S5_TYPE_FREE"
                /\ s5'.inodes[last'.ino].s5_un = s5.s5s_free_inode]_vars

\* a device inode was allocated and freed again: it is back at the head of
\* the list, in front of the inode that was the head before
C32_Witness ==
    /\ last.op = "s5_free_inode" /\ last.type = "S5_TYPE_CHR" /\ ~panicked
    /\ s5.s5s_free_inode = last.ino
    /\ s5.inodes[last.ino].s5_indirect_block = DevId
    /\ s5.inodes[last.ino].s5_un # NoInode

\* the blocks on the free list: those in the first nfree slots of the array
\* arr, the list node its last slot names, and the blocks that node lists
RECURSIVE FreeBlocks(_, _, _, _)
FreeBlocks(s, arr, nfree, n) ==
    {arr[i] : i \in 1 .. nfree}
      \cup (LET next == arr[S5_NBLKS_PER_FNODE] IN
            IF next = NoBlock \/ next \notin Blocks \/ n = 0 THEN {}
            ELSE IF Len(s.blk[next]) # S5_NBLKS_PER_FNODE THEN {next}
            ELSE {next} \cup FreeBlocks(s, s.blk[next], S5_NBLKS_PER_FNODE - 1, n - 1))

FreeBlocksOf(s) == FreeBlocks(s, s.s5s_free_blocks, s.s5s_nfree, MaxBlocks)

\* what the claim says of the call s5_free_block(b) made in the state s
FreeBlockOk(s, b) ==
    LET r == s5_free_block(s, b)
        n == s.s5s_nfree
    IN  /\ b # 0 /\ n < S5_NBLKS_PER_FNODE
        /\ ~r.panic
        /\ FreeBlocksOf(r.s5) = FreeBlocksOf(s) \cup {b}
        /\ IF n < S5_NBLKS_PER_FNODE - 1
           THEN r.s5 = [s EXCEPT !.s5s_free_blocks[n + 1] = b,
                                 !.s5s_nfree = n + 1,
                                 !.pf_dirty[b] = FALSE]
           ELSE r.s5 = [s EXCEPT !.blk[b] = s.s5s_free_blocks,
                                 !.pf_dirty[b] = TRUE,
                                 !.s5s_nfree = 0,
                                 !.s5s_free_blocks[S5_NBLKS_PER_FNODE] = b]

\* every call of s5_free_block made by the loop over blocks, from index i
RECURSIVE FreeEachOk(_, _, _)
FreeEachOk(s, blocks, i) ==
    IF i > Len(blocks) THEN TRUE
    ELSE IF blocks[i] = 0 THEN FreeEachOk(s, blocks, i + 1)
    ELSE /\ FreeBlockOk(s, blocks[i])
         /\ FreeEachOk(s5_free_block(s, blocks[i]).s5, blocks, i + 1)

\* every call of s5_free_block made when the blocks of inode are freed
FreeAllOk(s, inode) ==
    LET direct == inode.s5_direct_blocks
        indirect == inode.s5_indirect_block
        d == s5_free_each(S5Res(s, FALSE, Ok(0)), direct, 1)
    IN  /\ FreeEachOk(s, direct, 1)
        /\ indirect # 0
           => /\ FreeEachOk(d.s5, d.s5.blk[indirect], 1)
              /\ FreeBlockOk(s5_free_each(d, d.s5.blk[indirect], 1).s5, indirect)

\* C33: in every call of s5_free_block that s5_remove_blocks (on the cached
\* inode of an open file) and s5_free_inode (on an inode without links) make,
\* s5s_nfree is below S5_NBLKS_PER_FNODE and b is not 0, so no assertion
\* fails. With room in the array the call stores b in slot s5s_nfree, counts
\* it and clears the dirty flag of b's frame; with one slot left it copies
\* the array into b, whose frame stays dirty, restarts the array with
\* s5s_nfree 0 and b as the next-node pointer. The free blocks afterwards are
\* those before and b.
C33_FreeBlock ==
    /\ s5.s5s_nfree < S5_NBLKS_PER_FNODE
    /\ s5.node.live => FreeAllOk(s5, s5.node.inode)
    /\ \A ino \in Inos :
          /\ s5.inodes[ino].s5_linkcount = 0
          /\ s5.inodes[ino].s5_type \in {"S5_TYPE_DATA", "S5_TYPE_DIR"}
          => FreeAllOk(s5, s5.inodes[ino])

\* the array was flushed into a freed block, which now heads the list and
\* still lists the blocks that were free before
C33_Witness ==
    /\ ~panicked /\ last.op = "s5fs_truncate_file"
    /\ s5.s5s_free_blocks[S5_NBLKS_PER_FNODE] \in Blocks
    /\ s5.pf_dirty[s5.s5s_free_blocks[S5_NBLKS_PER_FNODE]]
    /\ FirstFreeBlock \in FreeBlocksOf(s5)
    /\ s5.s5s_nfree > 0

\* the statements that read or write the free lists of the super block
SbAccess == {"read_head", "take", "push", "free_block"}

SbAt(t, steps) ==
    thr[t].pc = "running" /\ thr[t].todo # <<>> /\ Head(thr[t].todo) \in steps

\* C34: the free-inode head, the free-block array and s5s_nfree are read and
\* written only by a thread that holds the super block mutex; a thread that
\* has returned from s5_alloc_inode or s5_free_inode (ENOSPC included) does
\* not hold it; no thread calls s5_lock_super while it holds the mutex, so
\* the holder can always go on; and no inode is held by two threads
C34_SuperMutex ==
    /\ \A t \in Threads :
          /\ SbAt(t, SbAccess) => km[SuperMutex] = t
          /\ thr[t].pc = "idle" => km[SuperMutex] # t /\ thr[t].held = {}
          /\ SbAt(t, {"s5_lock_super"}) => km[SuperMutex] # t
          /\ ~thr[t].stuck
          /\ km[SuperMutex] = t
             => thr[t].pc = "running" /\ ~SbAt(t, {"s5_lock_super"})
    /\ \A t, u \in Threads : t # u => thr[t].got \cap thr[u].got = {}
    /\ ~panicked

\* a thread has got ENOSPC and returned without the mutex, while another
\* thread frees the blocks of an inode after it has unlocked the super block,
\* and has just taken the mutex again in s5_free_block
C34_Witness ==
    \E t, u \in Threads :
        /\ t # u
        /\ thr[t].pc = "idle" /\ thr[t].ret = Err("ENOSPC")
        /\ thr[u].op = "s5_free_inode" /\ SbAt(u, {"free_block"})
        /\ km[SuperMutex] = u

\* C35: when the vnode of f is destroyed, s5fs_delete_vnode frees the inode
\* (its blocks and the inode itself) if the cached link count is 0; if not
\* and the cached inode was dirtied, the inode on disk becomes the cached
\* inode; otherwise the disk stays as it is. An inode with links is not freed.
C35_DeleteVnode ==
    [][last'.op = "s5fs_delete_vnode" /\ ~panicked'
       => LET cached == s5.node.inode IN
          IF cached.s5_linkcount = 0
          THEN s5'.inodes[InoF].s5_type = "S5_TYPE_FREE"
          ELSE /\ s5'.inodes[InoF].s5_type # "S5_TYPE_FREE"
               /\ IF s5.node.dirtied_inode
                  THEN s5'.inodes[InoF] = cached
                  ELSE s5'.inodes = s5.inodes]_vars

\* the disk block of block idx of the file with the inode `inode`, 0 for a
\* sparse block
FileBlock(s, inode, idx) ==
    IF idx < S5_NDIRECT_BLOCKS THEN inode.s5_direct_blocks[idx + 1]
    ELSE IF inode.s5_indirect_block = 0
            \/ idx - S5_NDIRECT_BLOCKS >= S5_NIDIRECT_BLOCKS THEN 0
    ELSE s.blk[inode.s5_indirect_block][idx - S5_NDIRECT_BLOCKS + 1]

\* C36: s5fs_get_pframe returns EINVAL for an index at or beyond the length
\* of the vnode. Within the file it never fails the assertion: for a block
\* that has a disk block it evicts the vnode's own frame and returns the
\* block device's frame of that block; with for_write set it returns a frame
\* of the block device in every case; only for a sparse block without
\* for_write does it return the frame of the vnode's own object
C36_GetPframe ==
    [][last'.op = "s5fs_get_pframe"
       => IF s5_vn_len(s5) <= last'.pagenum * PAGE_SIZE
          THEN last'.ret = Err("EINVAL") /\ ~panicked'
          ELSE LET b == FileBlock(s5, s5.node.inode, last'.pagenum) IN
               /\ ~panicked'
               /\ last'.ret = Ok(0)
               /\ b # 0 => last'.pf = <<"blockdev", b>> /\ last'.evict
               /\ last'.forwrite => last'.pf[1] = "blockdev" /\ last'.pf[2] # 0
               /\ b = 0 /\ ~last'.forwrite
                  => last'.pf = <<"vnode", last'.pagenum>>]_vars

\* C37: s5fs_mknod returns ENOTSUP and allocates nothing for a mode that is
\* not character, block or regular; otherwise it, and s5fs_mkdir, hand
\* s5_alloc_inode one of the S5 inode types, so that its type assertion holds
C37_MknodType ==
    [][last'.op \in {"s5fs_mknod", "s5fs_mkdir"}
       => IF last'.op = "s5fs_mknod" /\ last'.type = "S_IFDIR"
          THEN last'.ret = Err("ENOTSUP") /\ s5' = s5 /\ ~panicked'
          ELSE /\ last'.type \in S5_TYPES
               /\ ~s5_alloc_inode_res(s5, last'.type).panic]_vars

\* the S_IF* mode of an S5 inode type
ModeOfType(type) ==
    CASE type = "S5_TYPE_DATA" -> "S_IFREG"
      [] type = "S5_TYPE_DIR" -> "S_IFDIR"
      [] type = "S5_TYPE_CHR" -> "S_IFCHR"
      [] type = "S5_TYPE_BLK" -> "S_IFBLK"
      [] OTHER -> "0"

\* C38: after s5fs_read_vnode the cached inode is the inode on disk with the
\* number vn_vno and is not dirtied, vn_len is its size, vn_mode the S_IF*
\* mode of its type, vn_ops the directory table for a directory, the file
\* table for a regular file and NULL for a device, whose vn_devid is the
\* indirect-block field; an inode of unknown type makes it panic
C38_ReadVnode ==
    [][last'.op = "s5fs_read_vnode"
       => LET d == s5.inodes[last'.ino]
              vn == last'.vn
          IN  IF d.s5_type \notin S5_TYPES THEN panicked'
              ELSE /\ ~panicked'
                   /\ vn.inode = d
                   /\ ~vn.dirtied_inode
                   /\ vn.vn_len = d.s5_un
                   /\ vn.vn_mode = ModeOfType(d.s5_type)
                   /\ vn.vn_ops = CASE d.s5_type = "S5_TYPE_DIR" -> s5fs_dir_vops
                                    [] d.s5_type = "S5_TYPE_DATA" -> s5fs_file_vops
                                    [] OTHER -> NoVops
                   /\ d.s5_type \in {"S5_TYPE_CHR", "S5_TYPE_BLK"}
                      => vn.vn_devid = d.s5_indirect_block]_vars

-----------------------------------------------------------------------------
(* Properties of the line discipline *)

\* a line c1..ck and its newline were keyed while the reader slept
LineKeyed == ldisc.line.clean /\ ldisc.line.nl /\ ldisc.line.blocked

\* C39: when plain characters c1..ck, fewer than the buffer holds, and then a
\* newline are keyed, a thread blocked in ldisc_wait_read is woken and its
\* ldisc_wait_read returns 0, and the next ldisc_read with a count of at
\* least k returns k and c1..ck in order. ldisc_wait_read returns 0 or, when
\* the sleep was cancelled, -EINTR (0, not an unassigned value, when it never
\* slept), and it does not return 0 while no line is complete and the buffer
\* is not full
C39_LineRead ==
    /\ LineKeyed ~> (thr[Reader].pc = "returned" /\ thr[Reader].ret = Ok(0))
    /\ [][/\ last'.op = "ldisc_wait_read"
             => /\ last'.ret \in {Ok(0), Err("EINTR")}
                /\ thr[Reader].pc = "sleeping" => last'.ret = Err("EINTR")
                /\ thr[Reader].pc = "test"
                   => last'.ret = Ok(0) /\ ~ldisc_wait_read_cond(ldisc)
          /\ last'.op = "ldisc_read" /\ ldisc.line.clean /\ ldisc.line.nl
             /\ last'.count >= Len(ldisc.line.chars)
             => /\ last'.ret = Ok(Len(ldisc.line.chars))
                /\ last'.buf = ldisc.line.chars]_vars

\* the indices and the flag of the line discipline, and its buffer
LdiscFields(l) ==
    <<l.ldisc_cooked, l.ldisc_tail, l.ldisc_head, l.ldisc_full, l.ldisc_buffer>>

\* the slots that hold characters not read yet: from ldisc_cooked, where
\* ldisc_read reads, to ldisc_head
LdiscUsed(l) ==
    (l.ldisc_head - l.ldisc_cooked + LDISC_BUFFER_SIZE) % LDISC_BUFFER_SIZE

\* C40: ldisc_head, ldisc_tail and ldisc_cooked stay within the buffer; a
\* full line discipline ignores every key; a plain character is dropped when
\* one free slot remains; a backspace takes one character off the uncooked
\* region, which starts at ldisc_tail, and nothing when it is empty; ETX
\* moves ldisc_head to the start of the uncooked region and nothing else
C40_LdiscIndices ==
    /\ [](\A i \in {ldisc.ldisc_head, ldisc.ldisc_tail, ldisc.ldisc_cooked} :
             i \in 0 .. (LDISC_BUFFER_SIZE - 1))
    /\ [][last'.op = "ldisc_key_pressed"
          => IF ldisc.ldisc_full = 1
             THEN LdiscFields(ldisc') = LdiscFields(ldisc)
             ELSE
             /\ last'.c \in Plain /\ LdiscUsed(ldisc) = LDISC_BUFFER_SIZE - 1
                => LdiscFields(ldisc') = LdiscFields(ldisc)
             /\ last'.c = BS
                => ldisc'.ldisc_head =
                      IF ldisc.ldisc_head = ldisc.ldisc_tail
                      THEN ldisc.ldisc_head
                      ELSE (ldisc.ldisc_head + LDISC_BUFFER_SIZE - 1)
                              % LDISC_BUFFER_SIZE
             /\ last'.c = ETX
                => LdiscFields(ldisc') =
                      LdiscFields([ldisc EXCEPT !.ldisc_head = ldisc.ldisc_tail])
         ]_vars

====
